---- MODULE Spec2Model ----
(***************************************************************************)
(* A model of ErSlice's sitemap subsystem (src-tauri/src/commands.rs): the *)
(* module -> page -> subpage tree kept as directories under design-assets, *)
(* the page.json sidecars, the pages/_order.json override, the tree builder *)
(* and the SITEMAP_CACHE with its two time-to-live windows.                *)
(*                                                                         *)
(* File names and slugs are strings.  TLA+ strings are atomic, so Chars    *)
(* gives each name its characters (ASCII codes); every character-level     *)
(* test of the code (trim, contains('/'), to_lowercase, cmp) is computed   *)
(* on those codes.  A file-system path is the tuple of its components.     *)
(***************************************************************************)
EXTENDS Integers, Sequences, FiniteSets, TLC

VARIABLES
    fs,      \* the file system: path -> node (a directory or a file and its content)
    cache,   \* SITEMAP_CACHE: [module_trees, analytics, design_modules]
    now,     \* SystemTime::now(), in seconds
    last,    \* the most recent command, its module and the Result it returned
    calls,   \* the number of commands so far that changed the file system
    lock,    \* the Mutex of SITEMAP_CACHE: the thread that holds its guard, 0 when free
    threads  \* the commands in progress: thread -> [op, m, slug, at, res]

vars == <<fs, cache, now, last, calls, lock, threads>>

(***************************************************************************)
(* Bounds of the model.                                                    *)
(***************************************************************************)
MaxClock == 600
MaxCalls == 1
MaxFsCalls == 2
MaxBuildCalls == 1
MaxOrderLen == 2
MaxThreads == 2
MaxMermaidCalls == 2
MaxIdLen == 3

(***************************************************************************)
(* Program constants.                                                      *)
(***************************************************************************)
CACHE_DURATION_MEDIUM == 300
CACHE_DURATION_LONG == 600

(***************************************************************************)
(* Strings.                                                                *)
(***************************************************************************)
Chars(s) ==
    CASE s = ""            -> <<>>
      [] s = " "           -> <<32>>
      [] s = "a/b"         -> <<97, 47, 98>>
      [] s = "a"           -> <<97>>
      [] s = "n"           -> <<110>>
      [] s = "b"           -> <<98>>
      [] s = "list"        -> <<108, 105, 115, 116>>
      [] s = "create"      -> <<99, 114, 101, 97, 116, 101>>
      [] s = "Edit"        -> <<69, 100, 105, 116>>
      [] s = "detail"      -> <<100, 101, 116, 97, 105, 108>>
      [] s = "View"        -> <<86, 105, 101, 119>>
      [] s = "ghost"       -> <<103, 104, 111, 115, 116>>
      [] s = "_order.json" -> <<95, 111, 114, 100, 101, 114, 46, 106, 115, 111, 110>>
      [] s = "shop"        -> <<115, 104, 111, 112>>
      [] s = "Shop"        -> <<83, 104, 111, 112>>
      [] s = "shop_list"   -> <<115, 104, 111, 112, 95, 108, 105, 115, 116>>
      [] s = "shop_list "  -> <<115, 104, 111, 112, 95, 108, 105, 115, 116, 32>>
      [] s = "list "       -> <<108, 105, 115, 116, 32>>
      [] s = "list_detail" -> <<108, 105, 115, 116, 95, 100, 101, 116, 97, 105, 108>>
      [] s = "My Page!"    -> <<77, 121, 32, 80, 97, 103, 101, 33>>
      [] s = "___"         -> <<95, 95, 95>>
      [] s = "/shop/list"  -> <<47, 115, 104, 111, 112, 47, 108, 105, 115, 116>>
      [] s = "/shop/list " -> <<47, 115, 104, 111, 112, 47, 108, 105, 115, 116, 32>>
      [] s = "/shop/list/detail" ->
            <<47, 115, 104, 111, 112, 47, 108, 105, 115, 116, 47, 100, 101, 116, 97, 105, 108>>
      [] s = "index"       -> <<105, 110, 100, 101, 120>>
      [] s = "view"        -> <<118, 105, 101, 119>>
      [] s = "show"        -> <<115, 104, 111, 119>>
      [] s = "new"         -> <<110, 101, 119>>
      [] s = "add"         -> <<97, 100, 100>>
      [] s = "edit"        -> <<101, 100, 105, 116>>
      [] s = "update"      -> <<117, 112, 100, 97, 116, 101>>
      [] s = "modify"      -> <<109, 111, 100, 105, 102, 121>>
      [] s = "delete"      -> <<100, 101, 108, 101, 116, 101>>
      [] s = "remove"      -> <<114, 101, 109, 111, 118, 101>>
      [] s = "search"      -> <<115, 101, 97, 114, 99, 104>>
      [] s = "filter"      -> <<102, 105, 108, 116, 101, 114>>
      [] s = "dashboard"   -> <<100, 97, 115, 104, 98, 111, 97, 114, 100>>
      [] s = "overview"    -> <<111, 118, 101, 114, 118, 105, 101, 119>>
      [] s = "settings"    -> <<115, 101, 116, 116, 105, 110, 103, 115>>
      [] s = "config"      -> <<99, 111, 110, 102, 105, 103>>
      [] s = "LIST"        -> <<76, 73, 83, 84>>
      [] s = "design-assets" -> <<100, 101, 115, 105, 103, 110, 45, 97, 115, 115, 101, 116, 115>>
      [] s = "pages"       -> <<112, 97, 103, 101, 115>>
      [] s = "subpages"    -> <<115, 117, 98, 112, 97, 103, 101, 115>>
      [] s = "/shop"       -> <<47, 115, 104, 111, 112>>
      [] s = "/shop/list/detail/more" ->
            <<47, 115, 104, 111, 112, 47, 108, 105, 115, 116, 47, 100, 101, 116, 97, 105, 108,
              47, 109, 111, 114, 101>>

\* str::trim().is_empty(), char::is_whitespace being taken on the ASCII range
TrimIsEmpty(s) == \A i \in 1..Len(Chars(s)) : Chars(s)[i] \in {9, 10, 11, 12, 13, 32}

\* str::contains('/')
ContainsSlash(s) == \E i \in 1..Len(Chars(s)) : Chars(s)[i] = 47

\* str::to_lowercase, char::to_lowercase being taken on the ASCII range
ToLowercase(s) ==
    [i \in 1..Len(Chars(s)) |->
        LET c == Chars(s)[i] IN IF c >= 65 /\ c <= 90 THEN c + 32 ELSE c]

\* Ord for str (and for String): lexicographic on the bytes; -1, 0 or 1
RECURSIVE CmpCodes(_, _)
CmpCodes(a, b) ==
    IF a = <<>> /\ b = <<>> THEN 0
    ELSE IF a = <<>> THEN -1
    ELSE IF b = <<>> THEN 1
    ELSE IF Head(a) < Head(b) THEN -1
    ELSE IF Head(a) > Head(b) THEN 1
    ELSE CmpCodes(Tail(a), Tail(b))

\* a.slug.to_lowercase().cmp(&b.slug.to_lowercase())
CmpLower(s, t) == CmpCodes(ToLowercase(s), ToLowercase(t))

(***************************************************************************)
(* Option<T>.                                                              *)
(***************************************************************************)
None == <<>>
Some(v) == <<v>>
IsSome(o) == o # <<>>
Unwrap(o) == o[1]

(***************************************************************************)
(* The file system.                                                        *)
(***************************************************************************)
DirNode == [kind |-> "dir"]

TextData == [fmt |-> "text"]
GarbageData == [fmt |-> "garbage"]
JsonData(v) == [fmt |-> "json", val |-> v]

Exists(f, p) == p \in DOMAIN f
IsDir(f, p) == p \in DOMAIN f /\ f[p].kind = "dir"
IsFile(f, p) == p \in DOMAIN f /\ f[p].kind = "file"

IsPrefix(p, q) == Len(p) <= Len(q) /\ SubSeq(q, 1, Len(p)) = p
Parent(p) == SubSeq(p, 1, Len(p) - 1)
Prefixes(p) == {SubSeq(p, 1, n) : n \in 0..Len(p)}

\* PathBuf::join, the relative path s being split into its components
Join(p, s) ==
    p \o (IF s = "" THEN <<>>
          ELSE IF s = "a/b" THEN <<"a", "b">>
          ELSE <<s>>)

\* std::fs::create_dir_all
CreateDirAll(f, p) ==
    IF \E q \in Prefixes(p) : IsFile(f, q)
    THEN [ok |-> FALSE, fs |-> f]
    ELSE [ok |-> TRUE,
          fs |-> [q \in DOMAIN f \cup Prefixes(p) |->
                    IF q \in DOMAIN f THEN f[q] ELSE DirNode]]

\* std::fs::write
WriteFile(f, p, d) ==
    IF p = <<>> \/ ~IsDir(f, Parent(p)) \/ IsDir(f, p)
    THEN [ok |-> FALSE, fs |-> f]
    ELSE [ok |-> TRUE,
          fs |-> [q \in DOMAIN f \cup {p} |-> IF q = p THEN [kind |-> "file", data |-> d]
                                               ELSE f[q]]]

\* std::fs::read_to_string
ReadToString(f, p) ==
    IF IsFile(f, p) THEN [ok |-> TRUE, data |-> f[p].data]
    ELSE [ok |-> FALSE, data |-> GarbageData]

\* std::fs::read_dir(p), keeping the entries for which path.is_dir(): their names
SubDirs(f, p) ==
    {q[Len(q)] : q \in {r \in DOMAIN f : Len(r) = Len(p) + 1 /\ IsPrefix(p, r) /\ f[r].kind = "dir"}}

\* std::fs::remove_dir_all
RemoveDirAll(f, p) ==
    IF p = <<>> \/ ~IsDir(f, p)
    THEN [ok |-> FALSE, fs |-> f]
    ELSE [ok |-> TRUE,
          fs |-> [q \in {r \in DOMAIN f : ~IsPrefix(p, r)} |-> f[q]]]

\* std::fs::rename (rename(2))
Rename(f, from, to) ==
    LET under(p) == {r \in DOMAIN f : IsPrefix(p, r)}
        moved(r) == to \o SubSeq(r, Len(from) + 1, Len(r))
        clash == /\ Exists(f, to)
                 /\ \/ f[to].kind # f[from].kind
                    \/ f[to].kind = "dir" /\ under(to) # {to}
    IN  IF \/ from = <<>> \/ to = <<>>
           \/ ~Exists(f, from)
           \/ ~IsDir(f, Parent(to))
           \/ (from # to /\ IsPrefix(from, to))
           \/ clash
        THEN [ok |-> FALSE, fs |-> f]
        ELSE IF from = to THEN [ok |-> TRUE, fs |-> f]
        ELSE [ok |-> TRUE,
              fs |-> [q \in ((DOMAIN f \ under(from)) \ under(to))
                              \cup {moved(r) : r \in under(from)} |->
                        IF IsPrefix(to, q)
                        THEN f[from \o SubSeq(q, Len(to) + 1, Len(q))]
                        ELSE f[q]]]

(***************************************************************************)
(* JSON values (serde_json::Value) and sequences.                          *)
(***************************************************************************)
JNull == [t |-> "null"]
JStr(s) == [t |-> "str", v |-> s]
JArr(a) == [t |-> "arr", v |-> a]
JObj(o) == [t |-> "obj", v |-> o]
JBool(b) == [t |-> "bool", v |-> b]

EmptyMap == [k \in {} |-> <<>>]

Range(s) == {s[i] : i \in 1..Len(s)}

\* slice::iter().position(|s| s == x): the first index, 0-based, or None
Position(s, x) ==
    IF x \in Range(s)
    THEN Some((CHOOSE i \in 1..Len(s) : s[i] = x /\ \A j \in 1..(i - 1) : s[j] # x) - 1)
    ELSE None

\* Vec::dedup: removes consecutive repeated elements
RECURSIVE Dedup(_)
Dedup(s) ==
    IF Len(s) <= 1 THEN s
    ELSE IF s[1] = s[2] THEN Dedup(Tail(s))
    ELSE <<s[1]>> \o Dedup(Tail(s))

\* slice::sort_by / sort_by_key: a stable sort.  key[i] is the sort key of s[i], as
\* an integer rank; elements with equal keys keep their order
StableSortBy(s, key) ==
    LET n == Len(s)
        before(i) == {j \in 1..n : key[j] < key[i] \/ (key[j] = key[i] /\ j < i)}
    IN  [k \in 1..n |-> s[CHOOSE i \in 1..n : Cardinality(before(i)) = k - 1]]

\* the rank of name x among the names of S under the comparison Cmp
LowerRank(S, x) == Cardinality({y \in S : CmpLower(y, x) < 0})
BytesRank(S, x) == Cardinality({y \in S : CmpCodes(Chars(y), Chars(x)) < 0})

\* the sequences that enumerate the set S once each (an order read_dir may yield)
Enumerations(S) ==
    {e \in [1..Cardinality(S) -> S] : \A i, j \in 1..Cardinality(S) : i # j => e[i] # e[j]}

(***************************************************************************)
(* Metadata Store: PageMeta and read_page_meta.                            *)
(***************************************************************************)
StringFields ==
    {"slug", "title", "path", "status", "route", "notes", "domain", "area",
     "component", "action", "class", "mermaid_id"}
MetaFields == StringFields \cup {"links"}

\* serde_json::from_str::<PageMeta>: Ok iff the text is a JSON object whose known
\* fields have the declared types (unknown fields are ignored, missing ones are None)
ParsesAsPageMeta(d) ==
    /\ d.fmt = "json"
    /\ d.val.t = "obj"
    /\ \A k \in StringFields \cap DOMAIN d.val.v : d.val.v[k].t \in {"null", "str"}
    /\ "links" \in DOMAIN d.val.v =>
          \/ d.val.v["links"].t = "null"
          \/ /\ d.val.v["links"].t = "arr"
             /\ \A i \in 1..Len(d.val.v["links"].v) :
                   LET j == d.val.v["links"].v[i]   \* a LinkMeta { to, label }
                   IN  /\ j.t = "obj"
                       /\ "to" \in DOMAIN j.v
                       /\ j.v["to"].t = "str"
                       /\ ("label" \in DOMAIN j.v => j.v["label"].t \in {"null", "str"})

PageMetaFromJson(j) ==
    [k \in MetaFields |->
        IF k \notin DOMAIN j.v \/ j.v[k].t = "null" THEN None
        ELSE IF k = "links"
        THEN Some([i \in 1..Len(j.v[k].v) |->
                     LET l == j.v[k].v[i]
                     IN  [to |-> l.v["to"].v,
                          label |-> IF "label" \in DOMAIN l.v /\ l.v["label"].t = "str"
                                    THEN Some(l.v["label"].v) ELSE None]])
        ELSE Some(j.v[k].v)]

\* serde_json::to_string_pretty(&PageMeta): every field of the struct, None as null
PageMetaToJson(m) ==
    JObj([k \in MetaFields |->
            IF ~IsSome(m[k]) THEN JNull
            ELSE IF k = "links"
            THEN JArr([i \in 1..Len(Unwrap(m[k])) |->
                         LET l == Unwrap(m[k])[i]
                         IN  JObj("to" :> JStr(l.to)
                                  @@ "label" :> (IF IsSome(l.label) THEN JStr(Unwrap(l.label))
                                                 ELSE JNull))])
            ELSE JStr(Unwrap(m[k]))])

read_page_meta(f, dir) ==
    LET r == ReadToString(f, dir \o <<"page.json">>)
    IN  IF r.ok /\ ParsesAsPageMeta(r.data) THEN PageMetaFromJson(r.data.val)
        ELSE [k \in MetaFields |-> None]

(***************************************************************************)
(* Order Store: OrderFile, load_order and save_order.                      *)
(***************************************************************************)

IsStrArrJson(j) == j.t = "arr" /\ \A i \in 1..Len(j.v) : j.v[i].t = "str"
StrArrFromJson(j) == [i \in 1..Len(j.v) |-> j.v[i].v]
StrArrToJson(a) == JArr([i \in 1..Len(a) |-> JStr(a[i])])

\* serde_json::from_str::<OrderFile>: both fields are required
ParsesAsOrderFile(d) ==
    /\ d.fmt = "json"
    /\ d.val.t = "obj"
    /\ {"pages", "subpages"} \subseteq DOMAIN d.val.v
    /\ IsStrArrJson(d.val.v["pages"])
    /\ d.val.v["subpages"].t = "obj"
    /\ \A k \in DOMAIN d.val.v["subpages"].v : IsStrArrJson(d.val.v["subpages"].v[k])

OrderToJson(of) ==
    JObj("pages" :> StrArrToJson(of.pages)
         @@ "subpages" :> JObj([k \in DOMAIN of.subpages |-> StrArrToJson(of.subpages[k])]))

ModuleDir(m) == <<"design-assets", m>>
PagesDir(m) == ModuleDir(m) \o <<"pages">>
OrderPath(m) == PagesDir(m) \o <<"_order.json">>

load_order(f, m) ==
    LET r == ReadToString(f, OrderPath(m))
        \* the OrderFile that the JSON object j gives
        OrderFromJson(j) ==
            [pages |-> StrArrFromJson(j.v["pages"]),
             subpages |-> [k \in DOMAIN j.v["subpages"].v |->
                              StrArrFromJson(j.v["subpages"].v[k])]]
    IN  IF r.ok /\ ParsesAsOrderFile(r.data) THEN OrderFromJson(r.data.val)
        ELSE [pages |-> <<>>, subpages |-> EmptyMap]

\* the outcome r of a storage call on f, or, when the call fails with an I/O
\* error (disk full, permission denied), an Err that leaves f as it is
Storage(fails, f, r) == IF fails THEN [ok |-> FALSE, fs |-> f] ELSE r

\* fault is the number of the storage call that fails with an I/O error, 0 for none
save_order(f, m, of, fault) ==
    LET made == IF ~Exists(f, PagesDir(m))
                THEN Storage(fault = 1, f, CreateDirAll(f, PagesDir(m)))
                ELSE [ok |-> TRUE, fs |-> f]
        deduped == [pages |-> Dedup(of.pages),
                    subpages |-> [k \in DOMAIN of.subpages |-> Dedup(of.subpages[k])]]
    IN  IF ~made.ok THEN [ok |-> FALSE, fs |-> made.fs]
        ELSE Storage(fault = 2, made.fs,
                     WriteFile(made.fs, OrderPath(m), JsonData(OrderToJson(deduped))))

(***************************************************************************)
(* Tree Builder: PageNode and build_module_tree_uncached.                  *)
(***************************************************************************)
\* usize::MAX, the sort key of a child the subpage order does not list.  Every
\* position is below it; the value is the largest integer of the model checker.
USIZE_MAX == 2147483647

\* the String values the code builds with format!("/{}/{}", ..) and "/{}/{}/{}"
PagePath(m, slug) == "/" \o m \o "/" \o slug
SubpagePath(m, slug, ss) == "/" \o m \o "/" \o slug \o "/" \o ss

PageNode(slug, default_path, meta, children) ==
    [slug |-> slug,
     path |-> IF IsSome(meta["path"]) THEN Unwrap(meta["path"]) ELSE default_path,
     title |-> meta["title"],
     status |-> meta["status"],
     route |-> meta["route"],
     notes |-> meta["notes"],
     domain |-> meta["domain"],
     area |-> meta["area"],
     component |-> meta["component"],
     action |-> meta["action"],
     class |-> meta["class"],
     links |-> meta["links"],
     children |-> children]

SubpagesDir(m, slug) == PagesDir(m) \o <<slug, "subpages">>

\* the orders in which read_dir may yield the subpage directories of each page of m
ScanOrders(f, m) ==
    LET pages == SubDirs(f, PagesDir(m))
        subs(s) == SubDirs(f, SubpagesDir(m, s))
    IN  {e \in [pages -> UNION {Enumerations(subs(s)) : s \in pages}] :
            \A s \in pages : e[s] \in Enumerations(subs(s))}

\* a sort that compares the slugs as written, upper case before lower case
SortBytes(nodes) ==
    StableSortBy(nodes, [i \in 1..Len(nodes) |->
                            BytesRank({nodes[j].slug : j \in 1..Len(nodes)}, nodes[i].slug)])

\* node.children.sort_by(|a,b| a.slug.to_lowercase().cmp(&b.slug.to_lowercase()))
SortLower(nodes) ==
    StableSortBy(nodes, [i \in 1..Len(nodes) |->
                            LowerRank({nodes[j].slug : j \in 1..Len(nodes)}, nodes[i].slug)])

\* a loop over order.pages that reads the map with get and leaves the page in it
RECURSIVE OrderedPagesKeeping(_, _, _)
OrderedPagesKeeping(listed, map, order) ==
    IF listed = <<>> THEN <<>>
    ELSE LET slug == Head(listed)
         IN  IF slug \in DOMAIN map
             THEN <<map[slug]>> \o OrderedPagesKeeping(Tail(listed), map, order)
             ELSE OrderedPagesKeeping(Tail(listed), map, order)

\* the loop over order.pages: the listed pages still in the map, each removed when taken
RECURSIVE OrderedPages(_, _, _)
OrderedPages(listed, map, order) ==
    IF listed = <<>> THEN <<>>
    ELSE LET slug == Head(listed)
         IN  IF slug \in DOMAIN map
             THEN LET node == map[slug]
                      \* the key of sort_by_key: position in subo, or usize::MAX
                      key(c) == LET at == Position(order.subpages[slug], c.slug)
                                IN  IF IsSome(at) THEN Unwrap(at) ELSE USIZE_MAX
                      sorted == IF slug \in DOMAIN order.subpages
                                THEN StableSortBy(node.children,
                                                  [i \in 1..Len(node.children) |->
                                                      key(node.children[i])])
                                ELSE SortLower(node.children)
                  IN  <<[node EXCEPT !.children = sorted]>>
                      \o OrderedPages(Tail(listed),
                                      [k \in DOMAIN map \ {slug} |-> map[k]], order)
             ELSE OrderedPages(Tail(listed), map, order)

\* Ok(_) of the Result types the commands return: Vec<PageNode>, String,
\* PageInfo and serde_json::Value
Ok(v) == [ok |-> TRUE, val |-> v]
OkString(s) == [ok |-> TRUE, text |-> s]
OkPageInfo(info) == [ok |-> TRUE, info |-> info]
OkValue(v) == [ok |-> TRUE, json |-> v]
Err(kind, what, name) == [ok |-> FALSE, err |-> [kind |-> kind, what |-> what, name |-> name]]

build_module_tree_uncached(f, m, e) ==
    IF ~Exists(f, ModuleDir(m)) THEN Err("NotFound", "module", m)
    ELSE
    LET \* the children of page slug, in the order the scan pushes them
        children(slug) ==
            [i \in 1..Len(e[slug]) |->
                PageNode(e[slug][i], SubpagePath(m, slug, e[slug][i]),
                         read_page_meta(f, SubpagesDir(m, slug) \o <<e[slug][i]>>), <<>>)]
        map_pages == [slug \in SubDirs(f, PagesDir(m)) |->
                        PageNode(slug, PagePath(m, slug),
                                 read_page_meta(f, PagesDir(m) \o <<slug>>), children(slug))]
        \* map_pages.into_values(): the values of the BTreeMap in key order
        into_values(map) ==
            LET ks == DOMAIN map
                any == CHOOSE x \in Enumerations(ks) : TRUE
                sorted == StableSortBy(any, [i \in 1..Len(any) |-> BytesRank(ks, any[i])])
            IN  [i \in 1..Len(sorted) |-> map[sorted[i]]]
        order == load_order(f, m)
        first == OrderedPages(order.pages, map_pages, order)
        taken == {first[i].slug : i \in 1..Len(first)}
        rest == SortLower(into_values([k \in DOMAIN map_pages \ taken |-> map_pages[k]]))
    IN  Ok(first \o [i \in 1..Len(rest) |->
                        [rest[i] EXCEPT !.children = SortLower(rest[i].children)]])

(***************************************************************************)
(* Cache Layer: SitemapCache.                                              *)
(***************************************************************************)
CachedData(data, timestamp) == [data |-> data, timestamp |-> timestamp]

NewCache == [module_trees |-> EmptyMap, analytics |-> None, design_modules |-> None]

\* c.timestamp.elapsed().unwrap_or(Duration::from_secs(0))
Elapsed(timestamp, t) == IF t >= timestamp THEN t - timestamp ELSE 0

is_fresh(cached, t, max_age) ==
    IsSome(cached) /\ Elapsed(Unwrap(cached).timestamp, t) < max_age

\* a freshness test that still accepts an entry whose age is max_age
is_module_tree_fresh_inclusive(c, m, t, max_age) ==
    m \in DOMAIN c.module_trees /\ Elapsed(c.module_trees[m].timestamp, t) <= max_age

is_module_tree_fresh(c, m, t, max_age) ==
    m \in DOMAIN c.module_trees /\ Elapsed(c.module_trees[m].timestamp, t) < max_age

\* a clearing that forgets the module trees only
invalidate_all_trees_only(c) == [c EXCEPT !.module_trees = EmptyMap]

invalidate_all(c) ==
    [c EXCEPT !.module_trees = EmptyMap, !.analytics = None, !.design_modules = None]

invalidate_module(c, m) ==
    [c EXCEPT !.module_trees = [k \in DOMAIN c.module_trees \ {m} |-> c.module_trees[k]],
              !.analytics = None]

(***************************************************************************)
(* The commands.  Each is an operator from the state it reads (the file    *)
(* system f, the cache c, the clock t) and its arguments to what it        *)
(* returns and the state it leaves: [res, fs, cache, scan], scan telling   *)
(* whether it scanned the file system to build its answer.                 *)
(***************************************************************************)
Out(res, f, c) == [res |-> res, fs |-> f, cache |-> c, scan |-> FALSE]
Scanned(res, f, c) == [res |-> res, fs |-> f, cache |-> c, scan |-> TRUE]

PageInfo(slug, path) == [slug |-> slug, path |-> path]

\* the page.json that create_module_page, create_subpage and apply_crud_subpages seed
SeedMeta(slug, title, path, notes, t) ==
    JObj("slug" :> JStr(slug) @@ "title" :> JStr(title) @@ "path" :> JStr(path)
         @@ "status" :> JStr("draft") @@ "route" :> JStr(path) @@ "notes" :> JStr(notes)
         @@ "createdAt" :> JStr(ToString(t)))

\* the three create_dir_all calls and the page.json write shared by the create commands
SeedNode(f, dir, meta, invalidated, fault) ==
    LET d1 == Storage(fault = 1, f, CreateDirAll(f, dir \o <<"screenshots">>))
        d2 == Storage(fault = 2, d1.fs, CreateDirAll(d1.fs, dir \o <<"html">>))
        d3 == Storage(fault = 3, d2.fs, CreateDirAll(d2.fs, dir \o <<"css">>))
        w == Storage(fault = 4, d3.fs,
                     WriteFile(d3.fs, dir \o <<"page.json">>, JsonData(meta)))
    IN  IF ~d1.ok THEN [ok |-> FALSE, what |-> "create_dir_all", fs |-> d1.fs, invalidated |-> FALSE]
        ELSE IF ~d2.ok THEN [ok |-> FALSE, what |-> "create_dir_all", fs |-> d2.fs, invalidated |-> FALSE]
        ELSE IF ~d3.ok THEN [ok |-> FALSE, what |-> "create_dir_all", fs |-> d3.fs, invalidated |-> FALSE]
        ELSE IF ~w.ok THEN [ok |-> FALSE, what |-> "write", fs |-> w.fs, invalidated |-> invalidated]
        ELSE [ok |-> TRUE, what |-> "", fs |-> w.fs, invalidated |-> invalidated]

\* create_module_page when its storage call number fault (1..4) fails, 0 for none
create_module_page_io(f, c, t, m, slug, fault) ==
    IF ~Exists(f, ModuleDir(m)) THEN Out(Err("NotFound", "module", m), f, c)
    ELSE IF TrimIsEmpty(slug) THEN Out(Err("InvalidInput", "empty slug", slug), f, c)
    ELSE IF ContainsSlash(slug) THEN Out(Err("InvalidInput", "slug with /", slug), f, c)
    ELSE LET page_dir == Join(PagesDir(m), slug)
             r == SeedNode(f, page_dir, SeedMeta(slug, slug, PagePath(m, slug), "", t),
                           TRUE, fault)
             c2 == IF r.invalidated THEN invalidate_module(c, m) ELSE c
         IN  IF ~r.ok THEN Out(Err("IOFailure", r.what, slug), r.fs, c2)
             ELSE Out(OkPageInfo(PageInfo(slug, PagePath(m, slug))), r.fs, c2)

create_module_page(f, c, t, m, slug) == create_module_page_io(f, c, t, m, slug, 0)

delete_module_page(f, c, t, m, slug) ==
    LET page_dir == Join(PagesDir(m), slug)
        r == RemoveDirAll(f, page_dir)
    IN  IF ~Exists(f, page_dir) THEN Out(Err("NotFound", "page", slug), f, c)
        ELSE IF ~r.ok THEN Out(Err("IOFailure", "remove_dir_all", slug), r.fs, c)
        ELSE Out(OkString("deleted"), r.fs, c)

\* a rename that writes the page.json of the node again, with the new slug and path
RenameInReseeding(f, c, dir, from_slug, to_slug, what, path) ==
    LET from == Join(dir, from_slug)
        to == Join(dir, to_slug)
        r == Rename(f, from, to)
        w == WriteFile(r.fs, to \o <<"page.json">>, JsonData(SeedMeta(to_slug, to_slug, path, "", 0)))
    IN  IF TrimIsEmpty(to_slug) THEN Out(Err("InvalidInput", "empty slug", to_slug), f, c)
        ELSE IF ContainsSlash(to_slug) THEN Out(Err("InvalidInput", "slug with /", to_slug), f, c)
        ELSE IF ~Exists(f, from) THEN Out(Err("NotFound", what, from_slug), f, c)
        ELSE IF Exists(f, to) THEN Out(Err("AlreadyExists", what, to_slug), f, c)
        ELSE IF ~r.ok THEN Out(Err("IOFailure", "rename", from_slug), r.fs, c)
        ELSE Out(OkPageInfo(PageInfo(to_slug, path)), w.fs, c)

\* rename_module_page and rename_subpage, on the directory that holds the siblings
RenameIn(f, c, dir, from_slug, to_slug, what, path) ==
    LET from == Join(dir, from_slug)
        to == Join(dir, to_slug)
        r == Rename(f, from, to)
    IN  IF TrimIsEmpty(to_slug) THEN Out(Err("InvalidInput", "empty slug", to_slug), f, c)
        ELSE IF ContainsSlash(to_slug) THEN Out(Err("InvalidInput", "slug with /", to_slug), f, c)
        ELSE IF ~Exists(f, from) THEN Out(Err("NotFound", what, from_slug), f, c)
        ELSE IF Exists(f, to) THEN Out(Err("AlreadyExists", what, to_slug), f, c)
        ELSE IF ~r.ok THEN Out(Err("IOFailure", "rename", from_slug), r.fs, c)
        ELSE Out(OkPageInfo(PageInfo(to_slug, path)), r.fs, c)

rename_module_page(f, c, t, m, from_slug, to_slug) ==
    RenameIn(f, c, PagesDir(m), from_slug, to_slug, "page", PagePath(m, to_slug))

\* a read that returns what it builds and leaves the cache as it found it
get_module_tree_unstored(f, c, t, m, e) ==
    IF is_module_tree_fresh(c, m, t, CACHE_DURATION_MEDIUM)
    THEN Out(Ok(c.module_trees[m].data), f, c)
    ELSE Scanned(build_module_tree_uncached(f, m, e), f, c)

get_module_tree(f, c, t, m, e) ==
    IF is_module_tree_fresh(c, m, t, CACHE_DURATION_MEDIUM)
    THEN Out(Ok(c.module_trees[m].data), f, c)
    ELSE LET result == build_module_tree_uncached(f, m, e)
         IN  IF ~result.ok THEN Scanned(result, f, c)
             ELSE Scanned(result, f,
                          [c EXCEPT !.module_trees =
                              [k \in DOMAIN c.module_trees \cup {m} |->
                                  IF k = m THEN CachedData(result.val, t)
                                  ELSE c.module_trees[k]]])

create_subpage(f, c, t, m, parent_slug, slug) ==
    IF TrimIsEmpty(slug) THEN Out(Err("InvalidInput", "empty slug", slug), f, c)
    ELSE IF ContainsSlash(slug) THEN Out(Err("InvalidInput", "slug with /", slug), f, c)
    ELSE LET base == Join(Join(PagesDir(m), parent_slug) \o <<"subpages">>, slug)
             path == SubpagePath(m, parent_slug, slug)
             r == SeedNode(f, base, SeedMeta(slug, slug, path, "", t), TRUE, 0)
             c2 == IF r.invalidated THEN invalidate_module(c, m) ELSE c
         IN  IF ~r.ok THEN Out(Err("IOFailure", r.what, slug), r.fs, c2)
             ELSE Out(OkPageInfo(PageInfo(slug, path)), r.fs, c2)

\* apply_crud_subpages: the subpages list, create, detail and edit of a page,
\* each seeded unless something of its name is there already
apply_crud_subpages(f, c, t, m, parent_slug) ==
    LET labels == <<"list", "create", "detail", "edit">>
        RECURSIVE Loop(_, _, _)
        \* the loop from its i-th label on, over the file system g
        Loop(g, created, i) ==
            IF i > Len(labels) THEN Out(Ok(created), g, c)
            ELSE LET slug == labels[i]
                     base == Join(Join(PagesDir(m), parent_slug) \o <<"subpages">>, slug)
                     \* the notes are the literal of the source
                     meta == SeedMeta(slug, parent_slug \o " " \o slug,
                                      SubpagePath(m, parent_slug, slug), "CRUD preset", t)
                     Seeded(r) == IF ~r.ok THEN Out(Err("IOFailure", r.what, slug), r.fs, c)
                                  ELSE Loop(r.fs, Append(created, slug), i + 1)
                 IN  IF Exists(g, base) THEN Loop(g, created, i + 1)
                     ELSE CHOOSE out \in {Seeded(r) :
                                             r \in {SeedNode(g, base, meta, FALSE, 0)}} : TRUE
    IN  Loop(f, <<>>, 1)

delete_subpage(f, c, t, m, parent_slug, slug) ==
    LET base == Join(Join(PagesDir(m), parent_slug) \o <<"subpages">>, slug)
        r == RemoveDirAll(f, base)
    IN  IF ~Exists(f, base) THEN Out(Err("NotFound", "subpage", slug), f, c)
        ELSE IF ~r.ok THEN Out(Err("IOFailure", "remove_dir_all", slug), r.fs, c)
        ELSE Out(OkString("deleted"), r.fs, c)

rename_subpage(f, c, t, m, parent_slug, from_slug, to_slug) ==
    RenameIn(f, c, Join(PagesDir(m), parent_slug) \o <<"subpages">>, from_slug, to_slug,
             "subpage", SubpagePath(m, parent_slug, to_slug))

\* the first slug of order that names nothing in dir, or None
FirstMissing(f, dir, order) ==
    IF \E i \in 1..Len(order) : ~Exists(f, Join(dir, order[i]))
    THEN Some(order[CHOOSE i \in 1..Len(order) :
                        /\ ~Exists(f, Join(dir, order[i]))
                        /\ \A j \in 1..(i - 1) : Exists(f, Join(dir, order[j]))])
    ELSE None

\* set_page_order when the storage call number fault (1..2) of save_order fails
set_page_order_io(f, c, t, m, order, fault) ==
    LET missing == FirstMissing(f, PagesDir(m), order)
        of == [load_order(f, m) EXCEPT !.pages = order]
        r == save_order(f, m, of, fault)
    IN  IF ~Exists(f, ModuleDir(m)) THEN Out(Err("NotFound", "module", m), f, c)
        ELSE IF IsSome(missing) THEN Out(Err("NotFound", "page", Unwrap(missing)), f, c)
        ELSE IF ~r.ok THEN Out(Err("IOFailure", "save_order", m), r.fs, c)
        ELSE Out(OkString("updated"), r.fs, c)

set_page_order(f, c, t, m, order) == set_page_order_io(f, c, t, m, order, 0)

set_subpage_order(f, c, t, m, parent_slug, order) ==
    LET sub_dir == Join(PagesDir(m), parent_slug) \o <<"subpages">>
        missing == FirstMissing(f, sub_dir, order)
        cur == load_order(f, m)
        of == [cur EXCEPT !.subpages =
                  [k \in DOMAIN cur.subpages \cup {parent_slug} |->
                      IF k = parent_slug THEN order ELSE cur.subpages[k]]]
        r == save_order(f, m, of, 0)
    IN  IF ~Exists(f, ModuleDir(m)) THEN Out(Err("NotFound", "module", m), f, c)
        ELSE IF IsSome(missing) THEN Out(Err("NotFound", "subpage", Unwrap(missing)), f, c)
        ELSE IF ~r.ok THEN Out(Err("IOFailure", "save_order", m), r.fs, c)
        ELSE Out(OkString("updated"), r.fs, c)

\* the fields of PageMetaUpdate
UpdateFields ==
    {"title", "status", "route", "notes", "path", "domain", "area", "component",
     "action", "class", "links"}

\* update_page_meta and update_subpage_meta, on the node's directory
UpdateMetaIn(f, c, dir, slug, what, meta) ==
    LET cur == read_page_meta(f, dir)
        new == [k \in MetaFields |->
                   IF k \in UpdateFields /\ IsSome(meta[k]) THEN meta[k] ELSE cur[k]]
        w == WriteFile(f, dir \o <<"page.json">>, JsonData(PageMetaToJson(new)))
    IN  IF ~Exists(f, dir) THEN Out(Err("NotFound", what, slug), f, c)
        ELSE IF ~w.ok THEN Out(Err("IOFailure", "write", slug), w.fs, c)
        ELSE Out(OkString("updated"), w.fs, c)

update_page_meta(f, c, t, m, slug, meta) ==
    UpdateMetaIn(f, c, Join(PagesDir(m), slug), slug, "page", meta)

update_subpage_meta(f, c, t, m, parent_slug, slug, meta) ==
    UpdateMetaIn(f, c, Join(Join(PagesDir(m), parent_slug) \o <<"subpages">>, slug),
                 slug, "subpage", meta)

create_design_module(f, c, t, name) ==
    LET module_dir == ModuleDir(name)
        d0 == CreateDirAll(f, module_dir)
        d1 == CreateDirAll(d0.fs, module_dir \o <<"screenshots">>)
        d2 == CreateDirAll(d1.fs, module_dir \o <<"html">>)
        d3 == CreateDirAll(d2.fs, module_dir \o <<"css">>)
        w == WriteFile(d3.fs, module_dir \o <<"README.md">>, TextData)
    IN  IF ~d0.ok THEN Out(Err("IOFailure", "create_dir_all", name), d0.fs, c)
        ELSE IF ~d1.ok THEN Out(Err("IOFailure", "create_dir_all", name), d1.fs, c)
        ELSE IF ~d2.ok THEN Out(Err("IOFailure", "create_dir_all", name), d2.fs, c)
        ELSE IF ~d3.ok THEN Out(Err("IOFailure", "create_dir_all", name), d3.fs, c)
        ELSE IF ~w.ok THEN Out(Err("IOFailure", "write", name), w.fs, c)
        ELSE Out(OkString("created"), w.fs, c)

ArchivedRoot == <<"design-assets-archived">>

archive_design_module(f, c, t, m) ==
    LET d == CreateDirAll(f, ArchivedRoot)
        r == Rename(d.fs, ModuleDir(m), ArchivedRoot \o <<m>>)
    IN  IF ~Exists(f, ModuleDir(m)) THEN Out(Err("NotFound", "module", m), f, c)
        ELSE IF ~d.ok THEN Out(Err("IOFailure", "create_dir_all", m), d.fs, c)
        ELSE IF ~r.ok THEN Out(Err("IOFailure", "rename", m), r.fs, c)
        ELSE Out(OkString("archived"), r.fs, c)

delete_design_module(f, c, t, m) ==
    LET r == RemoveDirAll(f, ModuleDir(m))
    IN  IF ~Exists(f, ModuleDir(m)) THEN Out(Err("NotFound", "module", m), f, c)
        ELSE IF ~r.ok THEN Out(Err("IOFailure", "remove_dir_all", m), r.fs, c)
        ELSE Out(OkString("deleted"), r.fs, c)

unarchive_design_module(f, c, t, m) ==
    LET d == CreateDirAll(f, <<"design-assets">>)
        r == Rename(d.fs, ArchivedRoot \o <<m>>, ModuleDir(m))
    IN  IF ~Exists(f, ArchivedRoot \o <<m>>) THEN Out(Err("NotFound", "archived module", m), f, c)
        ELSE IF ~d.ok THEN Out(Err("IOFailure", "create_dir_all", m), d.fs, c)
        ELSE IF Exists(d.fs, ModuleDir(m)) THEN Out(Err("AlreadyExists", "module", m), d.fs, c)
        ELSE IF ~r.ok THEN Out(Err("IOFailure", "rename", m), r.fs, c)
        ELSE Out(OkString("unarchived"), r.fs, c)

clear_sitemap_cache(f, c, t) == Out(OkString("cleared"), f, invalidate_all(c))

(***************************************************************************)
(* Project configuration (consumed by the Analytics Aggregator).           *)
(***************************************************************************)
ProjectsRoot == <<"projects">>

DefaultProjectConfig ==
    JObj("name" :> JStr("Default Project") @@ "slug" :> JStr("default")
         @@ "design_assets_root" :> JNull
         @@ "ai_doc_frontend_instructions" :> JNull
         @@ "ai_doc_ui_friendly" :> JNull
         @@ "zip_default" :> JBool(TRUE)
         @@ "include_bone_default" :> JBool(FALSE)
         @@ "include_specs_default" :> JBool(FALSE)
         @@ "overwrite_strategy_default" :> JStr("overwrite")
         @@ "mermaid_theme" :> JStr("default")
         @@ "mermaid_layout_direction" :> JStr("TD"))

\* serde_json::from_str::<ProjectConfig>
ParsesAsProjectConfig(d) ==
    /\ d.fmt = "json"
    /\ d.val.t = "obj"
    /\ \A k \in {"name", "slug"} : k \in DOMAIN d.val.v /\ d.val.v[k].t = "str"
    /\ \A k \in {"zip_default", "include_bone_default", "include_specs_default"} :
          k \in DOMAIN d.val.v /\ d.val.v[k].t = "bool"
    /\ \A k \in {"design_assets_root", "ai_doc_frontend_instructions", "ai_doc_ui_friendly",
                 "overwrite_strategy_default", "mermaid_theme", "mermaid_layout_direction"} :
          k \in DOMAIN d.val.v => d.val.v[k].t \in {"null", "str"}

read_active_slug(f) ==
    LET r == ReadToString(f, ProjectsRoot \o <<"active.json">>)
    IN  IF /\ r.ok /\ r.data.fmt = "json" /\ r.data.val.t = "obj"
           /\ "slug" \in DOMAIN r.data.val.v /\ r.data.val.v["slug"].t = "str"
        THEN Some(r.data.val.v["slug"].v)
        ELSE None

\* read_to_string and from_str of a project.json: [res, fs]
LoadProjectConfig(f, cfg_path) ==
    LET r == ReadToString(f, cfg_path)
    IN  IF ~r.ok THEN [res |-> Err("IOFailure", "read", "project.json"), fs |-> f]
        ELSE IF ~ParsesAsProjectConfig(r.data)
        THEN [res |-> Err("IOFailure", "parse", "project.json"), fs |-> f]
        ELSE [res |-> Ok(r.data.val), fs |-> f]

get_or_init_default_project(f) ==
    LET active == read_active_slug(f)
        active_cfg == Join(ProjectsRoot, Unwrap(active)) \o <<"project.json">>
        default_dir == ProjectsRoot \o <<"default">>
        config_path == default_dir \o <<"project.json">>
        d == CreateDirAll(f, default_dir)
        w == WriteFile(d.fs, config_path, JsonData(DefaultProjectConfig))
    IN  IF IsSome(active) /\ Exists(f, active_cfg) THEN LoadProjectConfig(f, active_cfg)
        ELSE IF ~d.ok THEN [res |-> Err("IOFailure", "create_dir_all", "projects/default"), fs |-> d.fs]
        ELSE IF ~Exists(d.fs, config_path)
        THEN IF ~w.ok THEN [res |-> Err("IOFailure", "write", "project.json"), fs |-> w.fs]
             ELSE [res |-> Ok(DefaultProjectConfig), fs |-> w.fs]
        ELSE LoadProjectConfig(d.fs, config_path)

(***************************************************************************)
(* Analytics Aggregator: build_sitemap_analytics_uncached, analyze_sitemap. *)
(***************************************************************************)
RECURSIVE Concat(_)
Concat(ss) == IF ss = <<>> THEN <<>> ELSE Head(ss) \o Concat(Tail(ss))

RECURSIVE SumSeq(_)
SumSeq(ns) == IF ns = <<>> THEN 0 ELSE Head(ns) + SumSeq(Tail(ns))

\* a value of type f64 that is a quotient of two counts
Ratio(num, den) == [num |-> num, den |-> den]


\* the parsed meta.json of a node, or None when it is absent or does not parse
MetaJsonValue(f, dir) ==
    LET r == ReadToString(f, dir \o <<"meta.json">>)
    IN  IF r.ok /\ r.data.fmt = "json" THEN Some(r.data.val) ELSE None

\* meta.get(key).is_none()
JsonLacks(j, k) == j.t # "obj" \/ k \notin DOMAIN j.v

\* meta.get("status").and_then(|v| v.as_str()).unwrap_or("unknown")
StatusOf(j) ==
    IF ~JsonLacks(j, "status") /\ j.v["status"].t = "str" THEN j.v["status"].v ELSE "unknown"

\* the orders in which read_dir may yield the modules and the pages of each module
AnalyticsScanOrders(f) ==
    LET mods == SubDirs(f, <<"design-assets">>)
        pages(m) == SubDirs(f, PagesDir(m))
    IN  {e \in [modules : Enumerations(mods),
                pages : [mods -> UNION {Enumerations(pages(m)) : m \in mods}]] :
            \A m \in mods : e.pages[m] \in Enumerations(pages(m))}

\* the aggregation over the tree under design-assets, visiting in the order e
SitemapAnalytics(f, project_name, e) ==
    LET mods == SubDirs(f, <<"design-assets">>)
        pages(m) == SubDirs(f, PagesDir(m))
        subs(m, s) == SubDirs(f, SubpagesDir(m, s))
        page_nodes == {<<m, s>> : m \in mods, s \in UNION {pages(x) : x \in mods}}
        all_pages == {n \in page_nodes : n[2] \in pages(n[1])}
        sub_nodes == {<<n[1], n[2], ss>> : n \in all_pages,
                                           ss \in UNION {subs(x[1], x[2]) : x \in all_pages}}
        all_subs == {n \in sub_nodes : n[3] \in subs(n[1], n[2])}
        page_dir(n) == PagesDir(n[1]) \o <<n[2]>>
        sub_dir(n) == SubpagesDir(n[1], n[2]) \o <<n[3]>>
        node_dirs == {page_dir(n) : n \in all_pages} \cup {sub_dir(n) : n \in all_subs}
        with_status == {d \in node_dirs : IsSome(MetaJsonValue(f, d))}
        statuses == {StatusOf(Unwrap(MetaJsonValue(f, d))) : d \in with_status}
        \* !get_files_in_dir(dir).is_empty(): an entry of the directory is a regular file
        has_asset(d, kind) == \E r \in DOMAIN f : /\ Len(r) = Len(d) + 2
                                                  /\ IsPrefix(d \o <<kind>>, r)
                                                  /\ f[r].kind = "file"
        with_assets(m) == {s \in pages(m) :
                              \E kind \in {"screenshots", "html", "css"} :
                                  has_asset(PagesDir(m) \o <<s>>, kind)}
        depth(m) == IF \E s \in pages(m) : subs(m, s) # {} THEN 3 ELSE 1
        max_depth == IF mods = {} THEN 0
                     ELSE CHOOSE d \in {depth(m) : m \in mods} : \A m \in mods : depth(m) <= d
        total_pages == Cardinality(all_pages)
        total_subpages == Cardinality(all_subs)
        count(kind) == Cardinality({d \in node_dirs : has_asset(d, kind)})
        \* the entry a page adds to orphaned_pages, or None
        orphan(m, slug) ==
            LET meta_path == PagesDir(m) \o <<slug, "meta.json">>
                r == ReadToString(f, meta_path)
            IN  IF ~Exists(f, meta_path) THEN Some(m \o "/" \o slug \o " (no meta)")
                ELSE IF ~r.ok THEN Some(m \o "/" \o slug \o " (unreadable meta)")
                ELSE IF r.data.fmt # "json" THEN Some(m \o "/" \o slug \o " (invalid meta)")
                ELSE IF JsonLacks(r.data.val, "route") \/ JsonLacks(r.data.val, "title")
                THEN Some(m \o "/" \o slug)
                ELSE None
        orphans(m) == LET each == [i \in 1..Len(e.pages[m]) |-> orphan(m, e.pages[m][i])]
                      IN  Concat([i \in 1..Len(each) |-> each[i]])
    IN  [project_name |-> project_name,
         total_modules |-> Cardinality(mods),
         total_pages |-> total_pages,
         total_subpages |-> total_subpages,
         average_pages_per_module |->
             IF mods # {} THEN Ratio(total_pages, Cardinality(mods)) ELSE Ratio(0, 1),
         modules_with_deep_structure |-> SelectSeq(e.modules, LAMBDA m : depth(m) >= 3),
         orphaned_pages |-> Concat([i \in 1..Len(e.modules) |-> orphans(e.modules[i])]),
         status_distribution |->
             [st \in statuses |->
                 Cardinality({d \in with_status : StatusOf(Unwrap(MetaJsonValue(f, d))) = st})],
         deepest_module |->
             IF mods = {} THEN None
             ELSE Some(e.modules[CHOOSE i \in 1..Len(e.modules) :
                                    /\ depth(e.modules[i]) = max_depth
                                    /\ \A j \in 1..(i - 1) : depth(e.modules[j]) < max_depth]),
         max_depth |-> max_depth,
         coverage_metrics |->
             [pages_with_screenshots |-> count("screenshots"),
              pages_with_html |-> count("html"),
              pages_with_css |-> count("css"),
              completion_percentage |->
                  IF total_pages + total_subpages > 0
                  THEN Ratio((count("screenshots") + count("html") + count("css")) * 100,
                             (total_pages + total_subpages) * 3)
                  ELSE Ratio(0, 1),
              modules_completion |->
                  [m \in mods |->
                      [total_pages |-> Cardinality(pages(m)),
                       pages_with_assets |-> Cardinality(with_assets(m)),
                       completion_rate |->
                           IF pages(m) # {}
                           THEN Ratio(Cardinality(with_assets(m)) * 100, Cardinality(pages(m)))
                           ELSE Ratio(0, 1)]]]]

\* [res, fs]: the project configuration is read, and written when it is absent
build_sitemap_analytics_uncached(f, e) ==
    LET project == get_or_init_default_project(f)
    IN  IF ~project.res.ok THEN project
        ELSE [res |-> OkValue(SitemapAnalytics(project.fs, project.res.val.v["name"].v, e)),
              fs |-> project.fs]

analyze_sitemap(f, c, t, e) ==
    IF is_fresh(c.analytics, t, CACHE_DURATION_LONG)
    THEN Out(OkValue(Unwrap(c.analytics).data), f, c)
    ELSE LET result == build_sitemap_analytics_uncached(f, e)
         IN  IF ~result.res.ok THEN Scanned(result.res, result.fs, c)
             ELSE Scanned(result.res, result.fs,
                          [c EXCEPT !.analytics = Some(CachedData(result.res.json, t))])

(***************************************************************************)
(* Project graph: sanitize_id, resolve_link_id, generate_project_mermaid.  *)
(* An identifier is the sequence of its characters.  The text of the graph *)
(* is the sequence of its lines, a line being the values its format!       *)
(* string is filled with: [kind, from, id, label].                         *)
(***************************************************************************)
\* a sanitize_id that keeps the leading underscores
sanitize_id_unstripped(s) ==
    LET out == [i \in 1..Len(s) |->
                   IF s[i] \in (48..57) \cup (65..90) \cup (97..122) THEN s[i] ELSE 95]
    IN  IF out = <<>> THEN <<110>> ELSE out

\* sanitize_id, s being the characters of the string
sanitize_id(s) ==
    LET out == [i \in 1..Len(s) |->
                   IF s[i] \in (48..57) \cup (65..90) \cup (97..122) THEN s[i] ELSE 95]
        kept == {i \in 1..Len(out) : \E j \in 1..i : out[j] # 95}
        stripped == SubSeq(out, Len(out) - Cardinality(kept) + 1, Len(out))
    IN  IF stripped = <<>> THEN <<110>> ELSE stripped

\* resolve_link_id(lk, _m, _pslug): <<the identifier, the label>>
resolve_link_id(lk) ==
    LET \* str::trim, str::trim_matches: s without its leading and trailing characters of S
        TrimMatches(s, S) ==
            LET inner == {i \in 1..Len(s) : s[i] \notin S}
            IN  IF inner = {} THEN <<>>
                ELSE SubSeq(s, CHOOSE i \in inner : \A j \in inner : i <= j,
                               CHOOSE i \in inner : \A j \in inner : i >= j)
        \* str::split(sep).collect()
        Split(s, sep) ==
            LET cuts == {0, Len(s) + 1} \cup {i \in 1..Len(s) : s[i] = sep}
                cut(k) == CHOOSE b \in cuts : Cardinality({x \in cuts : x < b}) = k - 1
            IN  [k \in 1..(Cardinality(cuts) - 1) |-> SubSeq(s, cut(k) + 1, cut(k + 1) - 1)]
        to == TrimMatches(Chars(lk.to), {9, 10, 11, 12, 13, 32})
        parts == Split(TrimMatches(to, {47}), 47)
        mid == sanitize_id(parts[1])
        pid == mid \o <<95>> \o sanitize_id(parts[2])
        sid == pid \o <<95>> \o sanitize_id(parts[3])
    IN  IF to # <<>> /\ to[1] = 47
        THEN IF Len(parts) = 2 THEN <<Some(pid), lk.label>>
             ELSE IF Len(parts) >= 3 THEN <<Some(sid), lk.label>>
             ELSE <<None, lk.label>>
        ELSE <<Some(sanitize_id(to)), lk.label>>

\* the identifier the emitter gives to the module <<m>>, the page <<m, pslug>>
\* and the subpage <<m, pslug, sslug>>: mid, pid and sid
RECURSIVE NodeId(_)
NodeId(node) ==
    IF Len(node) = 1 THEN sanitize_id(Chars(node[1]))
    ELSE NodeId(SubSeq(node, 1, Len(node) - 1)) \o <<95>> \o sanitize_id(Chars(node[Len(node)]))

\* get_mermaid_settings: the theme and the layout direction of the active
\* project, "default" and "TD" where project.json is absent or gives none
get_mermaid_settings(f) ==
    LET active == read_active_slug(f)
        slug == IF IsSome(active) THEN Unwrap(active) ELSE "default"
        r == ReadToString(f, Join(ProjectsRoot, slug) \o <<"project.json">>)
        Field(k, default) ==
            IF /\ r.ok /\ ParsesAsProjectConfig(r.data)
               /\ k \in DOMAIN r.data.val.v
               /\ r.data.val.v[k].t = "str"
            THEN r.data.val.v[k].v
            ELSE default
    IN  [theme |-> Field("mermaid_theme", "default"),
         layout_direction |-> Field("mermaid_layout_direction", "TD")]

\* the orders in which read_dir may yield the modules, the pages of each module
\* and the subpages of each page
MermaidScanOrders(f) ==
    LET mods == SubDirs(f, <<"design-assets">>)
        pages(m) == SubDirs(f, PagesDir(m))
        keys == {<<m, p>> : m \in mods, p \in UNION {pages(x) : x \in mods}}
        subs(k) == SubDirs(f, SubpagesDir(k[1], k[2]))
    IN  {e \in [modules : Enumerations(mods),
                pages : [mods -> UNION {Enumerations(pages(m)) : m \in mods}],
                subs : [keys -> UNION {Enumerations(subs(k)) : k \in keys}]] :
            /\ \A m \in mods : e.pages[m] \in Enumerations(pages(m))
            /\ \A k \in keys : e.subs[k] \in Enumerations(subs(k))}

\* the buffer generate_project_mermaid builds, e being the orders of its read_dir calls
MermaidText(f, e) ==
    LET Line(kind, from, id, label) == [kind |-> kind, from |-> from, id |-> id, label |-> label]
        layout_direction == get_mermaid_settings(f).layout_direction
        \* sort_by_key(|s| order.iter().position(|x| x == s).unwrap_or(usize::MAX)) when the
        \* order is given, sort_by(|a,b| a.to_lowercase().cmp(&b.to_lowercase())) otherwise
        SortSlugs(slugs, order) ==
            StableSortBy(slugs, [i \in 1..Len(slugs) |->
                IF ~IsSome(order) THEN LowerRank(Range(slugs), slugs[i])
                ELSE IF IsSome(Position(Unwrap(order), slugs[i]))
                THEN Unwrap(Position(Unwrap(order), slugs[i]))
                ELSE USIZE_MAX])
        modules == SortSlugs(e.modules, None)
        page_slugs(m) ==
            LET order == load_order(f, m)
            IN  SortSlugs(e.pages[m], IF order.pages # <<>> THEN Some(order.pages) ELSE None)
        sub_slugs(m, pslug) ==
            LET order == load_order(f, m)
            IN  SortSlugs(e.subs[<<m, pslug>>],
                          IF pslug \in DOMAIN order.subpages
                          THEN Some(order.subpages[pslug]) ELSE None)
        Node(from, id, path, meta, clazz) ==
            <<Line("edge", from, id, path \o <<meta.status, meta.route>>),
              Line("class", <<>>, id,
                   <<IF IsSome(meta.class) THEN meta.class ELSE Some(clazz)>>)>>
        Links(from, meta) ==
            IF ~IsSome(meta.links) THEN <<>>
            ELSE LET links == Unwrap(meta.links)
                     each == [i \in 1..Len(links) |->
                                 LET r == resolve_link_id(links[i])
                                 IN  IF IsSome(r[1])
                                     THEN <<Line("link", from, Unwrap(r[1]), <<r[2]>>)>>
                                     ELSE <<>>]
                 IN  Concat(each)
        SubLines(m, pslug) ==
            LET ss == sub_slugs(m, pslug)
            IN  Concat([i \in 1..Len(ss) |->
                    Node(NodeId(<<m, pslug>>), NodeId(<<m, pslug, ss[i]>>),
                         <<Some(m), Some(pslug), Some(ss[i])>>,
                         read_page_meta(f, SubpagesDir(m, pslug) \o <<ss[i]>>),
                         "componentLevel")])
        PageLines(m) ==
            LET ps == page_slugs(m)
            IN  Concat([i \in 1..Len(ps) |->
                    Node(NodeId(<<m>>), NodeId(<<m, ps[i]>>), <<Some(m), Some(ps[i])>>,
                         read_page_meta(f, Join(PagesDir(m), ps[i])), "pageLevel")
                    \o SubLines(m, ps[i])])
        SubLinks(m, pslug) ==
            LET ss == e.subs[<<m, pslug>>]
            IN  Concat([i \in 1..Len(ss) |->
                    Links(NodeId(<<m, pslug, ss[i]>>),
                          read_page_meta(f, SubpagesDir(m, pslug) \o <<ss[i]>>))])
        PageLinks(m) ==
            LET ps == e.pages[m]
            IN  Concat([i \in 1..Len(ps) |->
                    Links(NodeId(<<m, ps[i]>>), read_page_meta(f, Join(PagesDir(m), ps[i])))
                    \o SubLinks(m, ps[i])])
    IN  <<Line("flowchart", <<>>, <<>>, <<Some(layout_direction)>>)>>
        \o Concat([i \in 1..Len(modules) |->
                      <<Line("node", <<>>, NodeId(<<modules[i]>>), <<Some(modules[i])>>),
                        Line("class", <<>>, NodeId(<<modules[i]>>), <<Some("mainModule")>>)>>])
        \o <<Line("end", <<>>, <<>>, <<>>)>>
        \o Concat([i \in 1..Len(modules) |-> PageLines(modules[i])])
        \o Concat([i \in 1..Len(modules) |-> PageLinks(modules[i])])

generate_project_mermaid(f, c, t, e) ==
    LET ai_docs == <<"ai-docs">>
        result == [ok |-> TRUE,
                   mermaid |-> [mmd_path |-> "ai-docs/project-sitemap.mmd",
                                modules |-> Len(e.modules),
                                pages |-> SumSeq([i \in 1..Len(e.modules) |->
                                                     Len(e.pages[e.modules[i]])]),
                                subpages |-> SumSeq([i \in 1..Len(e.modules) |->
                                    SumSeq([j \in 1..Len(e.pages[e.modules[i]]) |->
                                        Len(e.subs[<<e.modules[i],
                                                     e.pages[e.modules[i]][j]>>])])])]]
        \* the append to ai_doc_ui_friendly, cfg being what get_or_init_default_project gave
        Appended(buf, cfg) ==
            LET path == cfg.res.val.v["ai_doc_ui_friendly"]
                a == WriteFile(cfg.fs, Join(<<>>, path.v), [fmt |-> "appended", val |-> buf])
            IN  IF cfg.res.ok /\ "ai_doc_ui_friendly" \in DOMAIN cfg.res.val.v /\ path.t = "str"
                   /\ ~TrimIsEmpty(path.v)
                THEN IF ~a.ok THEN Out(Err("IOFailure", "append", path.v), a.fs, c)
                     ELSE Scanned(result, a.fs, c)
                ELSE Scanned(result, cfg.fs, c)
        \* the rest of the command, w being what the write of the buffer gave
        Written(buf, w) ==
            IF ~w.ok THEN Out(Err("IOFailure", "write", "project-sitemap.mmd"), w.fs, c)
            ELSE CHOOSE out \in {Appended(buf, cfg) :
                                    cfg \in {get_or_init_default_project(w.fs)}} : TRUE
        \* the rest of the command, d being what create_dir_all gave and buf the buffer
        Built(buf, d) ==
            IF ~d.ok THEN Out(Err("IOFailure", "create_dir_all", "ai-docs"), d.fs, c)
            ELSE CHOOSE out \in {Written(buf, w) :
                                    w \in {WriteFile(d.fs, ai_docs \o <<"project-sitemap.mmd">>,
                                                     [fmt |-> "mermaid", val |-> buf])}} : TRUE
    IN  IF ~Exists(f, <<"design-assets">>) THEN Out(Err("NotFound", "design-assets", ""), f, c)
        ELSE CHOOSE out \in {Built(buf, d) :
                                buf \in {MermaidText(f, e)},
                                d \in {IF Exists(f, ai_docs) THEN [ok |-> TRUE, fs |-> f]
                                       ELSE CreateDirAll(f, ai_docs)}} : TRUE

\* generate_project_mermaid_html: the graph is generated (read_dir orders e),
\* read back, and written to ai-docs/project-sitemap.html with the theme and
\* the map from node identifier to directory link (read_dir orders e2)
generate_project_mermaid_html(f, c, t, e, e2) ==
    LET \* format!("file://{}", path.to_string_lossy().replace(' ', "%20")), below the
        \* current directory
        Href(dir) == [scheme |-> "file",
                      path |-> [i \in 1..Len(dir) |->
                                  Concat([j \in 1..Len(Chars(dir[i])) |->
                                            IF Chars(dir[i])[j] = 32 THEN <<37, 50, 48>>
                                            ELSE <<Chars(dir[i])[j]>>])]]
        SubEntries(m, p) ==
            [i \in 1..Len(e2.subs[<<m, p>>]) |->
                <<NodeId(<<m, p>>) \o <<95, 95>> \o sanitize_id(Chars(e2.subs[<<m, p>>][i])),
                  Href(SubpagesDir(m, p) \o <<e2.subs[<<m, p>>][i]>>)>>]
        PageEntries(m) ==
            Concat([i \in 1..Len(e2.pages[m]) |->
                      <<<<NodeId(<<m, e2.pages[m][i]>>), Href(Join(PagesDir(m), e2.pages[m][i]))>>>>
                      \o SubEntries(m, e2.pages[m][i])])
        \* the links.insert calls, in the order they are made
        inserts == Concat([i \in 1..Len(e2.modules) |->
                              <<<<NodeId(<<e2.modules[i]>>), Href(ModuleDir(e2.modules[i]))>>>>
                              \o PageEntries(e2.modules[i])])
        \* BTreeMap::insert replaces the value of a key that is present
        links == [k \in {inserts[i][1] : i \in 1..Len(inserts)} |->
                    inserts[CHOOSE i \in 1..Len(inserts) :
                                /\ inserts[i][1] = k
                                /\ \A j \in (i + 1)..Len(inserts) : inserts[j][1] # k][2]]
        Html(res) ==
            LET content == ReadToString(res.fs, <<"ai-docs", "project-sitemap.mmd">>)
                w == WriteFile(res.fs, <<"ai-docs", "project-sitemap.html">>,
                               [fmt |-> "html",
                                val |-> [theme |-> get_mermaid_settings(res.fs).theme, links |-> links,
                                         content |-> content.data.val]])
            IN  IF ~res.res.ok THEN res
                ELSE IF ~content.ok THEN Scanned(Err("IOFailure", "read", "project-sitemap.mmd"),
                                                 res.fs, res.cache)
                ELSE IF ~w.ok THEN Scanned(Err("IOFailure", "write", "project-sitemap.html"),
                                           w.fs, res.cache)
                ELSE Scanned(OkString("ai-docs/project-sitemap.html"), w.fs, res.cache)
    IN  CHOOSE out \in {Html(res) : res \in {generate_project_mermaid(f, c, t, e)}} : TRUE

\* generate_module_mermaid_html: the graph of one module, written to
\* ai-docs/module-<id>-sitemap.mmd, read back, and written with the theme to
\* ai-docs/module-<id>-sitemap.html; e gives the orders of the read_dir calls
generate_module_mermaid_html(f, c, t, module, e) ==
    LET Line(kind, from, id, label) == [kind |-> kind, from |-> from, id |-> id, label |-> label]
        mdir == Join(Join(<<"design-assets">>, module), "pages")
        mid == sanitize_id(Chars(module))
        order == load_order(f, module)
        \* the directories read_dir yields, none when the read fails
        Listed(dir, yielded) == IF IsDir(f, dir) THEN yielded ELSE <<>>
        \* sort_by_key(|s| given.iter().position(|x| x == s).unwrap_or(usize::MAX)) when an
        \* order is given, sort() otherwise
        SortSlugs(slugs, given) ==
            StableSortBy(slugs, [i \in 1..Len(slugs) |->
                IF ~IsSome(given) THEN BytesRank(Range(slugs), slugs[i])
                ELSE IF IsSome(Position(Unwrap(given), slugs[i]))
                THEN Unwrap(Position(Unwrap(given), slugs[i]))
                ELSE USIZE_MAX])
        page_slugs == SortSlugs(Listed(mdir, IF module \in DOMAIN e.pages
                                             THEN e.pages[module] ELSE <<>>),
                                IF order.pages # <<>> THEN Some(order.pages) ELSE None)
        subs(pslug) ==
            SortSlugs(Listed(Join(mdir, pslug) \o <<"subpages">>,
                             IF <<module, pslug>> \in DOMAIN e.subs
                             THEN e.subs[<<module, pslug>>] ELSE <<>>),
                      IF pslug \in DOMAIN order.subpages
                      THEN Some(order.subpages[pslug]) ELSE None)
        Node(from, id, path, meta, clazz) ==
            <<Line("edge", from, id, path \o <<meta.status, meta.route>>),
              Line("class", <<>>, id,
                   <<IF IsSome(meta.class) THEN meta.class ELSE Some(clazz)>>)>>
        SubLines(pslug, pid) ==
            LET ss == subs(pslug)
            IN  Concat([i \in 1..Len(ss) |->
                    Node(pid, pid \o <<95>> \o sanitize_id(Chars(ss[i])),
                         <<Some(module), Some(pslug), Some(ss[i])>>,
                         read_page_meta(f, Join(mdir, pslug) \o <<"subpages", ss[i]>>),
                         "componentLevel")])
        buf == <<Line("flowchart", <<>>, <<>>, <<Some(get_mermaid_settings(f).layout_direction)>>),
                 Line("node", <<>>, mid, <<Some(module)>>),
                 Line("class", <<>>, mid, <<Some("mainModule")>>)>>
               \o Concat([i \in 1..Len(page_slugs) |->
                      LET pid == mid \o <<95>> \o sanitize_id(Chars(page_slugs[i]))
                      IN  Node(mid, pid, <<Some(module), Some(page_slugs[i])>>,
                               read_page_meta(f, Join(mdir, page_slugs[i])), "pageLevel")
                          \o SubLines(page_slugs[i], pid)])
        \* format!("module-{}-sitemap", sanitize_id(&module)), sanitize_id giving the
        \* name of the module as it is or "n"
        stem == "module-" \o (CHOOSE s \in {module, "n"} : Chars(s) = mid) \o "-sitemap"
        mmd_path == <<"ai-docs", stem \o ".mmd">>
        html_path == <<"ai-docs", stem \o ".html">>
        \* the rest of the command, w being what the write of the buffer gave
        Written(w) ==
            LET content == ReadToString(w.fs, mmd_path)
                h == WriteFile(w.fs, html_path,
                               [fmt |-> "html",
                                val |-> [theme |-> get_mermaid_settings(w.fs).theme,
                                         module |-> module, graph |-> content.data.val]])
            IN  IF ~w.ok THEN Scanned(Err("IOFailure", "write", stem \o ".mmd"), w.fs, c)
                ELSE IF ~content.ok THEN Scanned(Err("IOFailure", "read", stem \o ".mmd"), w.fs, c)
                ELSE IF ~h.ok THEN Scanned(Err("IOFailure", "write", stem \o ".html"), h.fs, c)
                ELSE Scanned(OkString("ai-docs/" \o stem \o ".html"), h.fs, c)
        \* the rest of the command, d being what create_dir_all gave
        Built(d) ==
            IF ~d.ok THEN Scanned(Err("IOFailure", "create_dir_all", "ai-docs"), d.fs, c)
            ELSE CHOOSE out \in {Written(w) :
                                    w \in {WriteFile(d.fs, mmd_path,
                                                     [fmt |-> "mermaid", val |-> buf])}} : TRUE
    IN  IF ~Exists(f, mdir) THEN Out(Err("NotFound", "pages", module), f, c)
        ELSE CHOOSE out \in {Built(d) :
                                d \in {IF Exists(f, <<"ai-docs">>) THEN [ok |-> TRUE, fs |-> f]
                                       ELSE CreateDirAll(f, <<"ai-docs">>)}} : TRUE

(***************************************************************************)
(* Page type: detect_page_type.  page is the sequence of the characters of *)
(* the slug.                                                               *)
(***************************************************************************)
\* a detect_page_type that looks for the keywords in the slug as it is written
detect_page_type_cased(page, pmeta) ==
    LET contains(w) == \E k \in 0..(Len(page) - Len(Chars(w))) :
                          SubSeq(page, k + 1, k + Len(Chars(w))) = Chars(w)
    IN  IF IsSome(pmeta["action"]) THEN Unwrap(pmeta["action"])
        ELSE IF contains("list") \/ contains("index") THEN "list"
        ELSE IF contains("detail") \/ contains("view") \/ contains("show") THEN "detail"
        ELSE IF contains("create") \/ contains("new") \/ contains("add") THEN "create"
        ELSE IF contains("edit") \/ contains("update") \/ contains("modify") THEN "edit"
        ELSE IF contains("delete") \/ contains("remove") THEN "delete"
        ELSE IF contains("search") \/ contains("filter") THEN "search"
        ELSE IF contains("dashboard") \/ contains("overview") THEN "dashboard"
        ELSE IF contains("settings") \/ contains("config") THEN "settings"
        ELSE "general"

detect_page_type(page, pmeta) ==
    LET \* page.to_lowercase(), char::to_lowercase being taken on the ASCII range
        lower_page == [i \in 1..Len(page) |->
                          IF page[i] >= 65 /\ page[i] <= 90 THEN page[i] + 32 ELSE page[i]]
        \* lower_page.contains(w)
        contains(w) == \E k \in 0..(Len(lower_page) - Len(Chars(w))) :
                          SubSeq(lower_page, k + 1, k + Len(Chars(w))) = Chars(w)
    IN  IF IsSome(pmeta["action"]) THEN Unwrap(pmeta["action"])
        ELSE IF contains("list") \/ contains("index") THEN "list"
        ELSE IF contains("detail") \/ contains("view") \/ contains("show") THEN "detail"
        ELSE IF contains("create") \/ contains("new") \/ contains("add") THEN "create"
        ELSE IF contains("edit") \/ contains("update") \/ contains("modify") THEN "edit"
        ELSE IF contains("delete") \/ contains("remove") THEN "delete"
        ELSE IF contains("search") \/ contains("filter") THEN "search"
        ELSE IF contains("dashboard") \/ contains("overview") THEN "dashboard"
        ELSE IF contains("settings") \/ contains("config") THEN "settings"
        ELSE "general"

(***************************************************************************)
(* The state machine.  A step is one command, run to its return, or the    *)
(* clock advancing.  A command is taken while the budget of commands that  *)
(* change the file system lasts; one that changes nothing is always taken. *)
(***************************************************************************)
Modules == {"shop"}

\* sequences over S of length at most n
SeqsUpTo(S, n) == UNION {[1..k -> S] : k \in 0..n}

\* a PageMetaUpdate that sets one field
Patch(field, value) == [k \in UpdateFields |-> IF k = field THEN Some(value) ELSE None]

\* the arguments the commands are called with
Inputs ==
    [modules |-> Modules,
     pages |-> {"list"},
     new_pages |-> {"create"},
     from_pages |-> {"list"},
     subs |-> {"detail"},
     new_subs |-> {"View"},
     page_orders |-> {<<"list">>},
     sub_orders |-> {<<"detail">>},
     patches |-> {Patch("status", "done")}]

WideInputs ==
    [modules |-> Modules,
     pages |-> {"list", "create"},
     new_pages |-> {"list", "create", "", " ", "a/b"},
     from_pages |-> {"list", "create", "", "_order.json"},
     subs |-> {"detail", "View"},
     new_subs |-> {"detail", "View", "", "a/b"},
     page_orders |-> {<<>>, <<"list">>, <<"create", "list">>, <<"list", "list">>,
                      <<"ghost">>, <<"list", "ghost">>, <<"_order.json">>,
                      <<"list", "create", "list">>, <<"">>},
     sub_orders |-> {<<>>, <<"detail">>, <<"View", "detail">>, <<"ghost">>,
                     <<"detail", "ghost">>},
     patches |-> {Patch("status", "done"), Patch("title", "T")}]


FS0 == (<<>> :> DirNode) @@ (<<"design-assets">> :> DirNode)

NoCall == [op |-> "none", m |-> "", res |-> OkString("none"), scan |-> FALSE]

\* a project on disk: module shop with the page list and its subpage detail, as
\* create_design_module, create_module_page and create_subpage leave them
SeededFS ==
    LET f1 == create_design_module(FS0, NewCache, 0, "shop").fs
        f2 == create_module_page(f1, NewCache, 0, "shop", "list").fs
    IN  create_subpage(f2, NewCache, 0, "shop", "list", "detail").fs

\* the threads of the async runtime that run the commands
Threads == 1..MaxThreads

\* a thread that runs no command
Idle == [op |-> "none", m |-> "", slug |-> "", at |-> "idle", res |-> NoCall.res]

\* the process starts with an empty cache over what the disk holds
Init ==
    /\ fs \in {FS0, SeededFS}
    /\ cache = NewCache
    /\ now = 0
    /\ last = NoCall
    /\ calls = 0
    /\ lock = 0
    /\ threads = [t \in Threads |-> Idle]

\* the command op returns, leaving the state out
Return(op, m, out, max) ==
    /\ out.fs # fs => calls < max
    /\ fs' = out.fs
    /\ cache' = out.cache
    /\ last' = [op |-> op, m |-> m, res |-> out.res, scan |-> out.scan]
    /\ calls' = IF out.fs # fs THEN calls + 1 ELSE calls
    /\ now' = now
    /\ UNCHANGED <<lock, threads>>

CreateDesignModule(I, max) ==
    \E m \in I.modules : Return("create_design_module", m, create_design_module(fs, cache, now, m), max)

ArchiveDesignModule(I, max) ==
    \E m \in I.modules : Return("archive_design_module", m, archive_design_module(fs, cache, now, m), max)

DeleteDesignModule(I, max) ==
    \E m \in I.modules : Return("delete_design_module", m, delete_design_module(fs, cache, now, m), max)

UnarchiveDesignModule(I, max) ==
    \E m \in I.modules : Return("unarchive_design_module", m, unarchive_design_module(fs, cache, now, m), max)

CreateModulePage(I, max) ==
    \E m \in I.modules, slug \in I.new_pages :
        Return("create_module_page", m, create_module_page(fs, cache, now, m, slug), max)

DeleteModulePage(I, max) ==
    \E m \in I.modules, slug \in I.pages :
        Return("delete_module_page", m, delete_module_page(fs, cache, now, m, slug), max)

RenameModulePage(I, max) ==
    \E m \in I.modules, from_slug \in I.from_pages, to_slug \in I.new_pages :
        Return("rename_module_page", m,
               rename_module_page(fs, cache, now, m, from_slug, to_slug), max)

CreateSubpage(I, max) ==
    \E m \in I.modules, parent_slug \in I.pages, slug \in I.new_subs :
        Return("create_subpage", m, create_subpage(fs, cache, now, m, parent_slug, slug), max)

ApplyCrudSubpages(I, max) ==
    \E m \in I.modules, parent_slug \in I.pages :
        Return("apply_crud_subpages", m, apply_crud_subpages(fs, cache, now, m, parent_slug), max)

DeleteSubpage(I, max) ==
    \E m \in I.modules, parent_slug \in I.pages, slug \in I.subs :
        Return("delete_subpage", m, delete_subpage(fs, cache, now, m, parent_slug, slug), max)

RenameSubpage(I, max) ==
    \E m \in I.modules, parent_slug \in I.pages, from_slug \in I.subs, to_slug \in I.new_subs :
        Return("rename_subpage", m,
               rename_subpage(fs, cache, now, m, parent_slug, from_slug, to_slug), max)

SetPageOrder(I, max) ==
    \E m \in I.modules, order \in I.page_orders :
        Return("set_page_order", m, set_page_order(fs, cache, now, m, order), max)

SetSubpageOrder(I, max) ==
    \E m \in I.modules, parent_slug \in I.pages, order \in I.sub_orders :
        Return("set_subpage_order", m,
               set_subpage_order(fs, cache, now, m, parent_slug, order), max)

UpdatePageMeta(I, max) ==
    \E m \in I.modules, slug \in I.pages, meta \in I.patches :
        Return("update_page_meta", m, update_page_meta(fs, cache, now, m, slug, meta), max)

UpdateSubpageMeta(I, max) ==
    \E m \in I.modules, parent_slug \in I.pages, slug \in I.subs, meta \in I.patches :
        Return("update_subpage_meta", m,
               update_subpage_meta(fs, cache, now, m, parent_slug, slug, meta), max)

GetModuleTree(max) ==
    \E m \in Modules : \E e \in ScanOrders(fs, m) :
        Return("get_module_tree", m, get_module_tree(fs, cache, now, m, e), max)

AnalyzeSitemap(max) ==
    \E e \in AnalyticsScanOrders(fs) :
        Return("analyze_sitemap", "", analyze_sitemap(fs, cache, now, e), max)

ClearSitemapCache(max) ==
    Return("clear_sitemap_cache", "", clear_sitemap_cache(fs, cache, now), max)

Tick ==
    /\ \E d \in {300} : now + d <= MaxClock /\ now' = now + d
    /\ UNCHANGED <<fs, cache, last, calls, lock, threads>>

\* the commands that write to the file system
Mutate(I, max) ==
    \/ CreateDesignModule(I, max)
    \/ ArchiveDesignModule(I, max)
    \/ DeleteDesignModule(I, max)
    \/ UnarchiveDesignModule(I, max)
    \/ CreateModulePage(I, max)
    \/ DeleteModulePage(I, max)
    \/ RenameModulePage(I, max)
    \/ CreateSubpage(I, max)
    \/ DeleteSubpage(I, max)
    \/ RenameSubpage(I, max)
    \/ SetPageOrder(I, max)
    \/ SetSubpageOrder(I, max)
    \/ UpdatePageMeta(I, max)
    \/ UpdateSubpageMeta(I, max)

\* the commands that write, those that read through the cache, the cache
\* reset and the clock
Next ==
    \/ Mutate(Inputs, MaxCalls)
    \/ GetModuleTree(MaxCalls)
    \/ AnalyzeSitemap(MaxCalls)
    \/ ClearSitemapCache(MaxCalls)
    \/ Tick

Spec == Init /\ [][Next]_vars

(***************************************************************************)
(* Tree builds over the contents a disk can hold: any set of page          *)
(* directories, subpages, and any text in the user-editable order file.    *)
(***************************************************************************)
RECURSIVE WithPages(_, _)
WithPages(f, slugs) ==
    IF slugs = <<>> THEN f
    ELSE WithPages(create_module_page(f, NewCache, 0, "shop", Head(slugs)).fs, Tail(slugs))

RECURSIVE WithSubpages(_, _, _)
WithSubpages(f, parent_slug, slugs) ==
    IF slugs = <<>> THEN f
    ELSE WithSubpages(create_subpage(f, NewCache, 0, "shop", parent_slug, Head(slugs)).fs,
                      parent_slug, Tail(slugs))

\* module shop with pages P, subpages S of list, and an order file that is absent,
\* not JSON, JSON that is no OrderFile, or an OrderFile
InitBuild ==
    LET contents ==
            {TextData, GarbageData, JsonData(JObj(EmptyMap))}
            \cup {JsonData(OrderToJson([pages |-> pages, subpages |-> subpages])) :
                    pages \in SeqsUpTo({"list", "create", "Edit", "ghost"}, MaxOrderLen),
                    subpages \in {EmptyMap, "list" :> <<"View", "detail">>, "list" :> <<"ghost">>}}
        DiskWith(P, S, content) ==
            LET f1 == create_design_module(FS0, NewCache, 0, "shop").fs
                f2 == WithPages(f1, CHOOSE e \in Enumerations(P) : TRUE)
                f3 == WithSubpages(f2, "list", CHOOSE e \in Enumerations(S) : TRUE)
            IN  IF content = TextData THEN f3 ELSE WriteFile(f3, OrderPath("shop"), content).fs
    IN  /\ fs \in {DiskWith(P, S, content) :
                    P \in SUBSET {"list", "create", "Edit"},
                    S \in {{}, {"detail", "View"}},
                    content \in contents}
        /\ cache = NewCache
        /\ now = 0
        /\ last = NoCall
        /\ calls = 0
        /\ lock = 0
        /\ threads = [t \in Threads |-> Idle]

BuildInputs ==
    [modules |-> Modules, page_orders |-> {<<"create", "list">>, <<"Edit", "create">>}]

NextBuild ==
    \/ SetPageOrder(BuildInputs, MaxBuildCalls)
    \/ GetModuleTree(MaxBuildCalls)
    \/ ClearSitemapCache(MaxBuildCalls)

SpecBuild == InitBuild /\ [][NextBuild]_vars

\* the commands alone, over the wider arguments, with the cache left as it starts
SpecFs == Init /\ [][Mutate(WideInputs, MaxFsCalls)]_vars

\* the commands alone, over the arguments of Spec
SpecCommands == Init /\ [][Mutate(Inputs, MaxFsCalls)]_vars

\* the commands that make, rename and unmake modules, pages and subpages
SpecSubpages ==
    Init /\ [][\/ CreateDesignModule(Inputs, MaxFsCalls)
               \/ DeleteDesignModule(Inputs, MaxFsCalls)
               \/ CreateModulePage(Inputs, MaxFsCalls)
               \/ DeleteModulePage(Inputs, MaxFsCalls)
               \/ CreateSubpage(Inputs, MaxFsCalls)
               \/ DeleteSubpage(Inputs, MaxFsCalls)
               \/ RenameModulePage(Inputs, MaxFsCalls)
               \/ RenameSubpage(Inputs, MaxFsCalls)
               \/ ApplyCrudSubpages(Inputs, MaxFsCalls)]_vars

\* the commands, and a command one of whose storage calls fails with an I/O error
StorageFailure(I, max) ==
    \/ \E m \in Modules, slug \in I.new_pages, fault \in 1..4 :
         Return("create_module_page", m,
                create_module_page_io(fs, cache, now, m, slug, fault), max)
    \/ \E m \in Modules, order \in I.page_orders, fault \in 1..2 :
         Return("set_page_order", m,
                set_page_order_io(fs, cache, now, m, order, fault), max)

SpecIo == Init /\ [][Mutate(WideInputs, MaxFsCalls) \/ StorageFailure(WideInputs, MaxFsCalls)]_vars

\* the commands over several modules and the names the project graph is
\* sensitive to, and the generation of the graph
MermaidInputs ==
    [modules |-> {"shop", "Shop"},
     pages |-> {"list"},
     new_pages |-> {"___", "list ", "list_detail"},
     from_pages |-> {"list"},
     subs |-> {"detail"},
     new_subs |-> {"View"},
     page_orders |-> {<<"list">>},
     sub_orders |-> {<<>>},
     patches |-> {Patch("links", <<[to |-> "/shop/list/detail", label |-> Some("go")],
                                   [to |-> "shop_list ", label |-> None],
                                   [to |-> "/shop/list ", label |-> None],
                                   [to |-> "/shop", label |-> Some("up")],
                                   [to |-> "/shop/list/detail/more", label |-> Some("deep")]>>)}]

GenerateProjectMermaid(max) ==
    \E e \in MermaidScanOrders(fs) :
        Return("generate_project_mermaid", "", generate_project_mermaid(fs, cache, now, e), max)

GenerateProjectMermaidHtml(max) ==
    \E e \in MermaidScanOrders(fs) : \E e2 \in MermaidScanOrders(fs) :
        Return("generate_project_mermaid_html", "",
               generate_project_mermaid_html(fs, cache, now, e, e2), max)

GenerateModuleMermaidHtml(max) ==
    \E e \in MermaidScanOrders(fs) : \E m \in MermaidInputs.modules :
        Return("generate_module_mermaid_html", m,
               generate_module_mermaid_html(fs, cache, now, m, e), max)

SpecMermaid ==
    Init /\ [][\/ Mutate(MermaidInputs, MaxMermaidCalls)
               \/ GenerateProjectMermaid(MaxMermaidCalls)
               \/ GenerateProjectMermaidHtml(MaxMermaidCalls)
               \/ GenerateModuleMermaidHtml(MaxMermaidCalls)]_vars

\* sanitize_id applied to the strings of up to MaxIdLen characters over an
\* alphabet with a letter of each case, a digit, the underscore, a space and
\* a character outside ASCII, and to the strings "My Page!" and "___"
SanitizeId ==
    \E s \in SeqsUpTo({95, 97, 90, 57, 32, 233}, MaxIdLen) \cup {Chars("My Page!"), Chars("___")} :
        /\ last' = [op |-> "sanitize_id", m |-> "",
                    res |-> [ok |-> TRUE, arg |-> s, id |-> sanitize_id(s)], scan |-> FALSE]
        /\ UNCHANGED <<fs, cache, now, calls, lock, threads>>

SpecSanitize == Init /\ [][SanitizeId]_vars

\* detect_page_type applied to the slugs made of two words, the second being a
\* keyword, a keyword in upper or mixed case, a word that holds no keyword or
\* nothing, with the action attribute absent or set
DetectPageType ==
    LET words == {Chars(w) : w \in {"list", "index", "detail", "view", "show", "create", "new",
                                     "add", "edit", "update", "modify", "delete", "remove",
                                     "search", "filter", "dashboard", "overview", "settings",
                                     "config", "LIST", "Edit", "View", "shop", ""}}
        firsts == {Chars(w) : w \in {"", "shop", "Edit", "LIST", "view", "new", "config"}}
    IN  \E a \in firsts, b \in words, action \in {None, Some("wizard")} :
            /\ last' = [op |-> "detect_page_type", m |-> "",
                        res |-> [ok |-> TRUE, page |-> a \o b, action |-> action,
                                 type |-> detect_page_type(a \o b,
                                     [k \in MetaFields |-> IF k = "action" THEN action ELSE None])],
                        scan |-> FALSE]
            /\ UNCHANGED <<fs, cache, now, calls, lock, threads>>

SpecPageType == Init /\ [][DetectPageType]_vars

(***************************************************************************)
(* The commands as the threads run them.  A command that uses the cache    *)
(* is a sequence of steps; at says where its thread stands.  The steps     *)
(* check, store, invalidate and clear are the blocks that begin with       *)
(* SITEMAP_CACHE.lock().unwrap(): a thread standing at one of them without *)
(* the guard is blocked in lock(), and leaves the block dropping the guard.*)
(***************************************************************************)
Sections == {"check", "store", "invalidate", "clear"}

\* the guard of the check block living on to the end of the function
UnlockAtReturn(t, at) == IF at = "check" THEN t ELSE 0

\* the guard dropped at the end of its block, whatever the block
Unlock(t, at) == 0

Move(t, at, res) ==
    threads' = [threads EXCEPT ![t] = [@ EXCEPT !.at = at, !.res = res]]

\* a command is invoked on a thread
Begin(t) ==
    /\ threads[t].at = "idle"
    /\ \E m \in Modules, slug \in Inputs.new_pages,
          c \in {[op |-> "get_module_tree", at |-> "check"],
                 [op |-> "analyze_sitemap", at |-> "check"],
                 [op |-> "create_module_page", at |-> "dirs"],
                 [op |-> "clear_sitemap_cache", at |-> "clear"]} :
          threads' = [threads EXCEPT ![t] =
                         [op |-> c.op, m |-> m, slug |-> slug, at |-> c.at, res |-> NoCall.res]]
    /\ UNCHANGED <<fs, cache, now, last, calls, lock>>

\* SITEMAP_CACHE.lock() returns the guard
Acquire(t) ==
    /\ threads[t].at \in Sections
    /\ lock = 0
    /\ lock' = t
    /\ UNCHANGED <<fs, cache, now, last, calls, threads>>

\* the block run under the guard, to the end of its scope
Section(t) ==
    LET th == threads[t]
    IN  /\ th.at \in Sections
        /\ lock = t
        /\ lock' = Unlock(t, th.at)
        /\ CASE th.at = "check" /\ th.op = "get_module_tree" ->
                  /\ IF is_module_tree_fresh(cache, th.m, now, CACHE_DURATION_MEDIUM)
                     THEN Move(t, "done", Ok(cache.module_trees[th.m].data))
                     ELSE Move(t, "scan", th.res)
                  /\ cache' = cache
             [] th.at = "check" /\ th.op = "analyze_sitemap" ->
                  /\ IF is_fresh(cache.analytics, now, CACHE_DURATION_LONG)
                     THEN Move(t, "done", OkValue(Unwrap(cache.analytics).data))
                     ELSE Move(t, "scan", th.res)
                  /\ cache' = cache
             [] th.at = "store" /\ th.op = "get_module_tree" ->
                  /\ cache' = [cache EXCEPT !.module_trees =
                                  [k \in DOMAIN cache.module_trees \cup {th.m} |->
                                      IF k = th.m THEN CachedData(th.res.val, now)
                                      ELSE cache.module_trees[k]]]
                  /\ Move(t, "done", th.res)
             [] th.at = "store" /\ th.op = "analyze_sitemap" ->
                  /\ cache' = [cache EXCEPT !.analytics = Some(CachedData(th.res.json, now))]
                  /\ Move(t, "done", th.res)
             [] th.at = "invalidate" ->
                  /\ cache' = invalidate_module(cache, th.m)
                  /\ Move(t, "write", th.res)
             [] th.at = "clear" ->
                  /\ cache' = invalidate_all(cache)
                  /\ Move(t, "done", OkString("cleared"))
        /\ UNCHANGED <<fs, now, last, calls>>

\* the steps between the blocks: the scan of the file system by the uncached
\* builders, and the storage calls of create_module_page; what each can
\* leave, as [at, res, fs]
ScanOutcomes(th) ==
    LET page_dir == Join(PagesDir(th.m), th.slug)
        To(at, res, f) == [at |-> at, res |-> res, fs |-> f]
    IN  CASE th.at = "scan" /\ th.op = "get_module_tree" ->
                {LET result == build_module_tree_uncached(fs, th.m, e)
                 IN  To(IF result.ok THEN "store" ELSE "done", result, fs) :
                    e \in ScanOrders(fs, th.m)}
          [] th.at = "scan" /\ th.op = "analyze_sitemap" ->
                {LET result == build_sitemap_analytics_uncached(fs, e)
                 IN  To(IF result.res.ok THEN "store" ELSE "done", result.res, result.fs) :
                    e \in AnalyticsScanOrders(fs)}
          [] th.at = "dirs" ->
                LET r == SeedNode(fs, page_dir, JNull, FALSE, 4)
                IN  IF ~Exists(fs, ModuleDir(th.m))
                    THEN {To("done", Err("NotFound", "module", th.m), fs)}
                    ELSE IF TrimIsEmpty(th.slug) \/ ContainsSlash(th.slug)
                    THEN {To("done", Err("InvalidInput", "slug", th.slug), fs)}
                    ELSE IF r.what # "write"
                    THEN {To("done", Err("IOFailure", r.what, th.slug), r.fs)}
                    ELSE {To("invalidate", th.res, r.fs)}
          [] th.at = "write" ->
                LET meta == SeedMeta(th.slug, th.slug, PagePath(th.m, th.slug), "", now)
                    w == WriteFile(fs, page_dir \o <<"page.json">>, JsonData(meta))
                IN  {To("done",
                        IF w.ok THEN OkPageInfo(PageInfo(th.slug, PagePath(th.m, th.slug)))
                        ELSE Err("IOFailure", "write", th.slug),
                        w.fs)}
          [] OTHER -> {}

Scan(t) ==
    /\ \E o \in ScanOutcomes(threads[t]) :
          /\ fs' = o.fs
          /\ Move(t, o.at, o.res)
    /\ UNCHANGED <<cache, now, last, calls, lock>>

Run(t) == Acquire(t) \/ Section(t) \/ Scan(t)

LockNext == \E t \in Threads : Begin(t) \/ Run(t)

\* ENABLED <<Run(t)>>_vars, written out: the thread is between two blocks, or
\* at a block whose lock is free or its own
Runnable(t) ==
    \/ threads[t].at \in Sections /\ lock \in {0, t}
    \/ ScanOutcomes(threads[t]) # {}

\* the scheduler runs every thread that stays runnable: WF_vars(Run(t))
SpecLock ==
    /\ Init /\ [][LockNext]_vars
    /\ \A t \in Threads : []<>(~Runnable(t)) \/ []<><<Run(t)>>_vars


(***************************************************************************)
(* Properties of the tree build (SpecBuild).                               *)
(***************************************************************************)

\* C2: a tree build of an existing module returns exactly one page node per
\* directory under pages and, under each, exactly one child per directory
\* under its subpages, whatever the order file holds.
C2_OneNodePerDirectory ==
    \A m \in Modules :
        (last.op = "get_module_tree" /\ last.m = m /\ last.scan /\ Exists(fs, ModuleDir(m))) =>
            /\ last.res.ok
            /\ LET tree == last.res.val
                   pages == SubDirs(fs, PagesDir(m))
               IN  /\ Len(tree) = Cardinality(pages)
                   /\ {tree[i].slug : i \in 1..Len(tree)} = pages
                   /\ \A i \in 1..Len(tree) :
                        LET children == tree[i].children
                            subs == SubDirs(fs, SubpagesDir(m, tree[i].slug))
                        IN  /\ Len(children) = Cardinality(subs)
                            /\ {children[j].slug : j \in 1..Len(children)} = subs

\* a build of three pages, one with two subpages, under an order file that
\* lists one of the pages twice
C2_Witness ==
    /\ last.op = "get_module_tree" /\ last.scan /\ last.res.ok
    /\ Len(last.res.val) = 3
    /\ \E i \in 1..3 : Len(last.res.val[i].children) = 2
    /\ load_order(fs, "shop").pages = <<"create", "create">>

\* C3: a build returns the listed pages that exist first, in the order file's
\* order, then the other pages in ascending case-insensitive order; and once
\* set_page_order(m, [b, a]) has succeeded a build begins with b, a.
C3_ListedFirstThenLexical ==
    \A m \in Modules :
        /\ (last.op = "get_module_tree" /\ last.m = m /\ last.scan /\ last.res.ok) =>
            LET tree == last.res.val
                pages == SubDirs(fs, PagesDir(m))
                L == load_order(fs, m).pages
                firsts == {i \in 1..Len(L) : L[i] \in pages /\ \A j \in 1..(i - 1) : L[j] # L[i]}
                n == Cardinality(firsts)
            IN  /\ Len(tree) >= n
                /\ \A i \in firsts : tree[Cardinality({j \in firsts : j < i}) + 1].slug = L[i]
                /\ {tree[k].slug : k \in (n + 1)..Len(tree)} = pages \ Range(L)
                /\ \A k, l \in (n + 1)..Len(tree) :
                        k < l => CmpLower(tree[k].slug, tree[l].slug) <= 0
        /\ \A order \in BuildInputs.page_orders :
            LET out == set_page_order(fs, cache, now, m, order)
            IN  out.res.ok =>
                    \A e \in ScanOrders(out.fs, m) :
                        LET built == build_module_tree_uncached(out.fs, m, e)
                        IN  /\ built.ok
                            /\ Len(built.val) >= Len(order)
                            /\ \A i \in 1..Len(order) : built.val[i].slug = order[i]

\* pages list and create under an order file that lists create alone:
\* the build returns create, then list
C3_Witness ==
    /\ last.op = "get_module_tree" /\ last.scan /\ last.res.ok
    /\ SubDirs(fs, PagesDir("shop")) = {"list", "create"}
    /\ load_order(fs, "shop").pages = <<"create">>
    /\ [i \in 1..Len(last.res.val) |-> last.res.val[i].slug] = <<"create", "list">>


(***************************************************************************)
(* Properties of the cache (Spec).                                         *)
(***************************************************************************)
PageMutations ==
    {"create_module_page", "create_subpage", "delete_module_page", "delete_subpage",
     "rename_module_page", "rename_subpage", "set_page_order", "set_subpage_order",
     "update_page_meta", "update_subpage_meta"}

\* C1: when the command before a get_module_tree(m) was a successful create,
\* delete, rename, set order or update metadata on m, the tree returned is a
\* tree that a build of the module as it now is returns.
C1_NextReadReflectsMutation ==
    [][\A m \in Modules :
        (/\ last.op \in PageMutations /\ last.m = m /\ last.res.ok
         /\ last'.op = "get_module_tree" /\ last'.m = m /\ last'.res.ok)
        => \E e \in ScanOrders(fs', m) :
                last'.res = build_module_tree_uncached(fs', m, e)]_vars

\* C4: a page or subpage mutation that returns successfully leaves the cache
\* with no tree entry for its module and no analytics entry.
C4_MutationEmptiesCache ==
    [][(calls' # calls /\ last'.op \in PageMutations /\ last'.res.ok)
        => (last'.m \notin DOMAIN cache'.module_trees /\ cache'.analytics = None)]_vars

\* C5: of two consecutive get_module_tree(m) calls that both fall within
\* ttl_medium of the scan that built the tree, the second returns the tree the
\* first returned and scans nothing.  The second call is tried 0, 150, 299 and
\* 300 s after the first.
C5_SecondReadServedFromCache ==
    \A m \in Modules : \A e1 \in ScanOrders(fs, m) :
        LET first == get_module_tree(fs, cache, now, m, e1)
            built == IF first.scan THEN now ELSE cache.module_trees[m].timestamp
        IN  first.res.ok =>
                \A d \in {0, 150, 299, 300} : \A e2 \in ScanOrders(first.fs, m) :
                    LET second == get_module_tree(first.fs, first.cache, now + d, m, e2)
                    IN  (now + d) - built < CACHE_DURATION_MEDIUM =>
                            second.res = first.res /\ ~second.scan

\* a get_module_tree answered from the cache with the tree of a page
C5_Witness ==
    /\ last.op = "get_module_tree" /\ last.res.ok /\ ~last.scan
    /\ last.res.val # <<>>
    /\ "shop" \in DOMAIN cache.module_trees
    /\ cache.module_trees["shop"].data = last.res.val

\* C6: get_module_tree and analyze_sitemap return the cached value only when
\* the entry's age is below the ttl of its domain (ttl_medium, ttl_long), and
\* then return that value; on an absent or older entry they scan, and a scan
\* that succeeds stores its result with the current time, so the entry is fresh.
\* The read is tried now and 150 s from now.
C6_ReadHonoursTtl ==
    \A d \in {0, 150} :
        LET t == now + d
        IN  /\ \A m \in Modules : \A e \in ScanOrders(fs, m) :
                LET out == get_module_tree(fs, cache, t, m, e)
                    held == m \in DOMAIN cache.module_trees
                IN  /\ ~out.scan => /\ held
                                    /\ t - cache.module_trees[m].timestamp < CACHE_DURATION_MEDIUM
                                    /\ out.res = Ok(cache.module_trees[m].data)
                    /\ (~held \/ t - cache.module_trees[m].timestamp >= CACHE_DURATION_MEDIUM)
                            => out.scan
                    /\ (out.scan /\ out.res.ok)
                            => /\ m \in DOMAIN out.cache.module_trees
                               /\ out.cache.module_trees[m] = CachedData(out.res.val, t)
            /\ \A e \in AnalyticsScanOrders(fs) :
                LET out == analyze_sitemap(fs, cache, t, e)
                    held == IsSome(cache.analytics)
                IN  /\ ~out.scan => /\ held
                                    /\ t - Unwrap(cache.analytics).timestamp < CACHE_DURATION_LONG
                                    /\ out.res = OkValue(Unwrap(cache.analytics).data)
                    /\ (~held \/ t - Unwrap(cache.analytics).timestamp >= CACHE_DURATION_LONG)
                            => out.scan
                    /\ (out.scan /\ out.res.ok)
                            => out.cache.analytics = Some(CachedData(out.res.json, t))

\* a tree entry of age exactly ttl_medium, next to an analytics entry of the
\* same age that is still fresh: the tree is to be rebuilt, the report is not
C6_Witness ==
    /\ "shop" \in DOMAIN cache.module_trees
    /\ now - cache.module_trees["shop"].timestamp = CACHE_DURATION_MEDIUM
    /\ IsSome(cache.analytics)
    /\ now - Unwrap(cache.analytics).timestamp = CACHE_DURATION_MEDIUM

\* C8: a get_module_tree(m) called while m's directory does not exist fails
\* with NotFound.
C8_MissingModuleIsNotFound ==
    (last.op = "get_module_tree" /\ ~Exists(fs, ModuleDir(last.m)))
        => (~last.res.ok /\ last.res.err.kind = "NotFound")


(***************************************************************************)
(* Properties of the commands on the file system (SpecFs).                 *)
(***************************************************************************)

\* C7: on an existing module, set_page_order and set_subpage_order given an
\* order with a slug that is no page (no subpage of the parent) return NotFound
\* naming such a slug and leave the order file as it was, absent if it was absent.
C7_UnknownSlugRejected ==
    \A m \in Modules :
        Exists(fs, ModuleDir(m)) =>
            /\ \A order \in WideInputs.page_orders :
                LET unknown == Range(order) \ SubDirs(fs, PagesDir(m))
                    out == set_page_order(fs, cache, now, m, order)
                IN  unknown # {} =>
                        /\ ~out.res.ok
                        /\ out.res.err.kind = "NotFound"
                        /\ out.res.err.name \in unknown
                        /\ ReadToString(out.fs, OrderPath(m)) = ReadToString(fs, OrderPath(m))
            /\ \A parent_slug \in WideInputs.pages : \A order \in WideInputs.sub_orders :
                LET unknown == Range(order) \ SubDirs(fs, SubpagesDir(m, parent_slug))
                    out == set_subpage_order(fs, cache, now, m, parent_slug, order)
                IN  unknown # {} =>
                        /\ ~out.res.ok
                        /\ out.res.err.kind = "NotFound"
                        /\ out.res.err.name \in unknown
                        /\ ReadToString(out.fs, OrderPath(m)) = ReadToString(fs, OrderPath(m))

\* C9: create_module_page and create_subpage given the slug of an existing
\* sibling directory return AlreadyExists and change nothing on the file system.
C9_CreateExistingRejected ==
    \A m \in Modules :
        /\ \A slug \in SubDirs(fs, PagesDir(m)) \cap WideInputs.new_pages :
            LET out == create_module_page(fs, cache, now, m, slug)
            IN  /\ ~out.res.ok
                /\ out.res.err.kind = "AlreadyExists"
                /\ out.fs = fs
        /\ \A parent_slug \in WideInputs.pages :
           \A slug \in SubDirs(fs, SubpagesDir(m, parent_slug)) \cap WideInputs.new_subs :
            LET out == create_subpage(fs, cache, now, m, parent_slug, slug)
            IN  /\ ~out.res.ok
                /\ out.res.err.kind = "AlreadyExists"
                /\ out.fs = fs

\* C10: rename_module_page and rename_subpage return InvalidInput for an empty
\* new slug or one with a separator, NotFound when the source is no sibling
\* directory, AlreadyExists when the new slug is one, each time changing nothing;
\* otherwise the source directory, and nothing else, moves to the new slug.
C10_RenameContract ==
    \A m \in Modules :
        LET Contract(dir, from_slug, to_slug, out) ==
                LET siblings == SubDirs(fs, dir)
                    from == dir \o <<from_slug>>
                    to == dir \o <<to_slug>>
                    Rejected(kind) ==
                        ~out.res.ok /\ out.res.err.kind = kind /\ out.fs = fs
                IN  IF TrimIsEmpty(to_slug) \/ ContainsSlash(to_slug) THEN Rejected("InvalidInput")
                    ELSE IF from_slug \notin siblings THEN Rejected("NotFound")
                    ELSE IF to_slug \in siblings THEN Rejected("AlreadyExists")
                    ELSE /\ out.res.ok
                         /\ \A p \in DOMAIN fs :
                              IF IsPrefix(from, p)
                              THEN LET q == to \o SubSeq(p, Len(from) + 1, Len(p))
                                   IN  p \notin DOMAIN out.fs /\ q \in DOMAIN out.fs /\ out.fs[q] = fs[p]
                              ELSE p \in DOMAIN out.fs /\ out.fs[p] = fs[p]
                         /\ Cardinality(DOMAIN out.fs) = Cardinality(DOMAIN fs)
        IN  /\ \A from_slug \in WideInputs.from_pages : \A to_slug \in WideInputs.new_pages :
                Contract(PagesDir(m), from_slug, to_slug,
                         rename_module_page(fs, cache, now, m, from_slug, to_slug))
            /\ \A parent_slug \in WideInputs.pages :
               \A from_slug \in WideInputs.subs : \A to_slug \in WideInputs.new_subs :
                Contract(SubpagesDir(m, parent_slug), from_slug, to_slug,
                         rename_subpage(fs, cache, now, m, parent_slug, from_slug, to_slug))


\* C11: update_page_meta and update_subpage_meta on an existing node set the
\* fields present in the patch and leave every other field of the stored
\* metadata record (createdAt, slug, path, ..) as it was.
C11_PatchKeepsOtherFields ==
    \A m \in Modules :
        LET Kept(dir, out, meta) ==
                LET before == ReadToString(fs, dir \o <<"page.json">>)
                    after == ReadToString(out.fs, dir \o <<"page.json">>)
                IN  (before.ok /\ before.data.fmt = "json" /\ before.data.val.t = "obj") =>
                        /\ out.res.ok
                        /\ after.ok /\ after.data.fmt = "json" /\ after.data.val.t = "obj"
                        /\ \A k \in DOMAIN before.data.val.v :
                             /\ k \in DOMAIN after.data.val.v
                             /\ IF k \in UpdateFields /\ IsSome(meta[k])
                                THEN after.data.val.v[k] = JStr(Unwrap(meta[k]))
                                ELSE after.data.val.v[k] = before.data.val.v[k]
        IN  /\ \A slug \in SubDirs(fs, PagesDir(m)) : \A meta \in WideInputs.patches :
                Kept(Join(PagesDir(m), slug),
                     update_page_meta(fs, cache, now, m, slug, meta), meta)
            /\ \A parent_slug \in SubDirs(fs, PagesDir(m)) :
               \A slug \in SubDirs(fs, SubpagesDir(m, parent_slug)) :
               \A meta \in WideInputs.patches :
                Kept(SubpagesDir(m, parent_slug) \o <<slug>>,
                     update_subpage_meta(fs, cache, now, m, parent_slug, slug, meta), meta)


\* C12: a command that returns an error, a storage failure at any of its steps
\* included, leaves every directory and file as it was before the call.
C12_ErrorChangesNothing ==
    [][~last'.res.ok => fs' = fs]_vars


\* C13: after a successful set_page_order or set_subpage_order the order file
\* holds no slug twice in its pages list nor in any parent's subpages list.
C13_OrderFileHasNoRepeats ==
    (last.op \in {"set_page_order", "set_subpage_order"} /\ last.res.ok) =>
        LET of == load_order(fs, last.m)
            NoRepeat(l) == \A i, j \in 1..Len(l) : l[i] = l[j] => i = j
        IN  /\ NoRepeat(of.pages)
            /\ \A k \in DOMAIN of.subpages : NoRepeat(of.subpages[k])


\* C14: an order is persisted only when every slug in it names a child
\* directory: after a successful set_page_order every slug of the stored pages
\* list is a directory directly under pages (no regular file, no empty name),
\* and set_subpage_order given a slug that is no child directory of the
\* parent's subpages returns NotFound and writes nothing.
C14_OnlyDirectoriesAccepted ==
    /\ (last.op = "set_page_order" /\ last.res.ok) =>
          \A s \in Range(load_order(fs, last.m).pages) :
              /\ s \in SubDirs(fs, PagesDir(last.m))
              /\ IsDir(fs, Join(PagesDir(last.m), s))
    /\ \A m \in Modules, parent_slug \in WideInputs.pages, order \in WideInputs.sub_orders :
          LET out == set_subpage_order(fs, cache, now, m, parent_slug, order)
          IN  (\E i \in 1..Len(order) :
                  order[i] \notin SubDirs(fs, SubpagesDir(m, parent_slug))) =>
                  /\ ~out.res.ok
                  /\ out.res.err.kind = "NotFound"
                  /\ out.fs = fs


\* C15: whatever the cache holds and however fresh it is, clear_sitemap_cache
\* leaves no module tree, no analytics and no module list cached, and the
\* get_module_tree and analyze_sitemap that follow scan the file system and
\* return what the uncached builders return.
C15_ClearEmptiesEveryDomain ==
    LET out == clear_sitemap_cache(fs, cache, now)
    IN  /\ out.res.ok
        /\ out.fs = fs
        /\ DOMAIN out.cache.module_trees = {}
        /\ out.cache.analytics = None
        /\ out.cache.design_modules = None
        /\ \A d \in {0, 150} :
            /\ \A m \in Modules : \A e \in ScanOrders(fs, m) :
                LET tree == get_module_tree(out.fs, out.cache, now + d, m, e)
                IN  /\ tree.scan
                    /\ tree.res = build_module_tree_uncached(fs, m, e)
            /\ \A e \in AnalyticsScanOrders(fs) :
                LET stats == analyze_sitemap(out.fs, out.cache, now + d, e)
                IN  /\ stats.scan
                    /\ stats.res = build_sitemap_analytics_uncached(fs, e).res

\* a tree and the analytics are both cached and fresh when the cache is cleared
C15_Witness ==
    /\ is_module_tree_fresh(cache, "shop", now, CACHE_DURATION_MEDIUM)
    /\ is_fresh(cache.analytics, now, CACHE_DURATION_LONG)
    /\ clear_sitemap_cache(fs, cache, now).cache # cache


\* C16: the cache lock is held only inside a block that checks or replaces the
\* cache, never by a thread that scans the file system or calls the storage;
\* while a thread scans, a thread blocked in lock() finds the mutex free or
\* held by a third thread that is inside such a block and about to leave it;
\* and every command that was invoked returns.
C16_LockNotHeldAcrossScan ==
    /\ [](\A t \in Threads : threads[t].at \notin Sections => lock # t)
    /\ [](\A t, u \in Threads :
            (threads[t].at = "scan" /\ threads[u].at \in Sections /\ lock # u) =>
                \/ lock = 0 /\ ENABLED Acquire(u)
                \/ lock \in Threads \ {t, u} /\ ENABLED Section(lock))
    /\ \A t \in Threads : (threads[t].at # "idle") ~> (threads[t].at = "done")

\* one thread scans for get_module_tree while another holds the lock to clear
C16_Witness ==
    \E t, u \in Threads :
        /\ threads[t].op = "get_module_tree" /\ threads[t].at = "scan"
        /\ threads[u].op = "clear_sitemap_cache" /\ lock = u


(***************************************************************************)
(* Properties of the project graph (SpecMermaid, SpecSanitize).            *)
(***************************************************************************)

\* C17: once generate_project_mermaid has written the graph, generating it
\* again over the same file system writes the same text, whatever the order
\* in which read_dir yields the modules, the pages and the subpages.
C17_RenderIsDeterministic ==
    (last.op = "generate_project_mermaid" /\ last.res.ok) =>
        \A e \in MermaidScanOrders(fs) :
            ReadToString(generate_project_mermaid(fs, cache, now, e).fs,
                         <<"ai-docs", "project-sitemap.mmd">>)
                = ReadToString(fs, <<"ai-docs", "project-sitemap.mmd">>)

\* C18: in the graph generate_project_mermaid has written, when no two
\* directories with the same parent sanitize to the same string, no identifier
\* is declared twice (module node lines, page and subpage edge lines).
C18_IdentifiersAreUnique ==
    (last.op = "generate_project_mermaid" /\ last.res.ok) =>
        LET buf == ReadToString(fs, <<"ai-docs", "project-sitemap.mmd">>).data.val
            decl == {i \in 1..Len(buf) : buf[i].kind \in {"node", "edge"}}
            Distinct(dir) == \A x, y \in SubDirs(fs, dir) :
                                sanitize_id(Chars(x)) = sanitize_id(Chars(y)) => x = y
            mods == SubDirs(fs, <<"design-assets">>)
        IN  (/\ Distinct(<<"design-assets">>)
             /\ \A m \in mods : Distinct(PagesDir(m))
             /\ \A m \in mods : \A p \in SubDirs(fs, PagesDir(m)) : Distinct(SubpagesDir(m, p)))
            => \A i, j \in decl : buf[i].id = buf[j].id => i = j

\* C19: sanitize_id returns a non-empty string of ASCII letters, digits and
\* underscores that does not start with an underscore and that sanitize_id
\* leaves as it is; it is the input with every other character replaced by an
\* underscore and the leading underscores removed, or "n" when nothing is left;
\* "My Page!" gives "My_Page_" and "___" gives "n".
C19_SanitizeIdContract ==
    last.op = "sanitize_id" =>
        LET s == last.res.arg
            id == last.res.id
            alnum == (48..57) \cup (65..90) \cup (97..122)
            k == Len(s) - Len(id)
        IN  /\ id # <<>>
            /\ \A i \in 1..Len(id) : id[i] \in alnum \cup {95}
            /\ id[1] # 95
            /\ sanitize_id(id) = id
            /\ \/ id = <<110>> /\ \A i \in 1..Len(s) : s[i] \notin alnum
               \/ /\ k >= 0
                  /\ \A i \in 1..k : s[i] \notin alnum
                  /\ \A i \in 1..Len(id) :
                        id[i] = IF s[k + i] \in alnum THEN s[k + i] ELSE 95
            /\ s = Chars("My Page!") => id = <<77, 121, 95, 80, 97, 103, 101, 95>>
            /\ s = Chars("___") => id = <<110>>

\* sanitize_id has been applied to "My Page!" and to a string of underscores,
\* spaces and a character outside ASCII
C19_Witness ==
    /\ last.op = "sanitize_id"
    /\ \/ last.res.arg = Chars("My Page!") /\ last.res.id = <<77, 121, 95, 80, 97, 103, 101, 95>>
       \/ last.res.arg = <<95, 32, 233>> /\ last.res.id = <<110>>

\* C20: the path /module/page or /module/page/subpage of an existing page or
\* subpage resolves to the identifier the emitter gives that node, and a target
\* with no leading "/" resolves to sanitize_id of the whole target.
C20_LinkResolvesToNodeId ==
    LET Resolve(to) == resolve_link_id([to |-> to, label |-> None])[1]
    IN  /\ \A p \in SubDirs(fs, PagesDir("shop")) \cap {"list", "list "} :
            /\ Resolve(PagePath("shop", p)) = Some(NodeId(<<"shop", p>>))
            /\ \A ss \in SubDirs(fs, SubpagesDir("shop", p)) \cap {"detail"} :
                  p = "list" =>
                      Resolve(SubpagePath("shop", p, ss)) = Some(NodeId(<<"shop", p, ss>>))
        /\ \A to \in {"shop_list", "shop_list ", "list"} :
              Resolve(to) = Some(sanitize_id(Chars(to)))

\* C21: once generate_project_mermaid has written the graph, a link of a page
\* whose target is an absolute path of fewer than two or more than three
\* segments has no identifier from resolve_link_id and no line in the graph.
C21_MalformedDepthIsDropped ==
    (last.op = "generate_project_mermaid" /\ last.res.ok) =>
        LET buf == ReadToString(fs, <<"ai-docs", "project-sitemap.mmd">>).data.val
            \* the segments of a path that starts with "/" and ends with neither "/" nor a space
            Depth(to) == Cardinality({i \in 1..Len(Chars(to)) : Chars(to)[i] = 47})
        IN  \A m \in SubDirs(fs, <<"design-assets">>) : \A p \in SubDirs(fs, PagesDir(m)) :
                LET links == read_page_meta(fs, Join(PagesDir(m), p)).links
                IN  IsSome(links) =>
                        \A i \in 1..Len(Unwrap(links)) :
                            LET lk == Unwrap(links)[i]
                            IN  (lk.to \in {"/shop", "/shop/list", "/shop/list/detail",
                                            "/shop/list/detail/more"}
                                 /\ Depth(lk.to) \notin {2, 3})
                                => /\ resolve_link_id(lk)[1] = None
                                   /\ \A x \in 1..Len(buf) :
                                         buf[x].kind = "link" => buf[x].label # <<lk.label>>

(***************************************************************************)
(* Properties of the aggregation and of the tree (Spec, SpecBuild, SpecFs). *)
(***************************************************************************)

\* C22: in what analyze_sitemap has just computed, a page is listed in
\* orphaned_pages if and only if its page.json is missing, does not parse or
\* lacks route or title, and total_pages counts every page directory.
C22_OrphanedIffSidecarDefective ==
    (last.op = "analyze_sitemap" /\ last.scan /\ last.res.ok) =>
        LET a == last.res.json
            mods == SubDirs(fs, <<"design-assets">>)
            Listed(m, p) ==
                \E i \in 1..Len(a.orphaned_pages) :
                    a.orphaned_pages[i] \in {m \o "/" \o p \o suffix :
                        suffix \in {"", " (no meta)", " (invalid meta)", " (unreadable meta)"}}
            Defective(m, p) ==
                LET r == ReadToString(fs, PagesDir(m) \o <<p, "page.json">>)
                IN  \/ ~r.ok
                    \/ r.data.fmt # "json"
                    \/ JsonLacks(r.data.val, "route")
                    \/ JsonLacks(r.data.val, "title")
        IN  /\ \A m \in mods : \A p \in SubDirs(fs, PagesDir(m)) : Listed(m, p) <=> Defective(m, p)
            /\ a.total_pages = Cardinality(UNION {{<<m, p>> : p \in SubDirs(fs, PagesDir(m))} :
                                                    m \in mods})

\* C23: in a tree a build has returned, a page that the order file lists and
\* gives a subpage order S has as children the existing members of S in S's
\* order, then its other children in ascending case-insensitive order.
C23_ChildrenListedThenLexical ==
    \A m \in Modules :
        (last.op = "get_module_tree" /\ last.m = m /\ last.scan /\ last.res.ok) =>
            LET tree == last.res.val
                order == load_order(fs, m)
            IN  \A t \in 1..Len(tree) :
                    (tree[t].slug \in Range(order.pages) /\ tree[t].slug \in DOMAIN order.subpages) =>
                        LET S == order.subpages[tree[t].slug]
                            kids == tree[t].children
                            subs == SubDirs(fs, SubpagesDir(m, tree[t].slug))
                            firsts == {i \in 1..Len(S) :
                                          S[i] \in subs /\ \A j \in 1..(i - 1) : S[j] # S[i]}
                            n == Cardinality(firsts)
                        IN  /\ Len(kids) >= n
                            /\ \A i \in firsts :
                                  kids[Cardinality({j \in firsts : j < i}) + 1].slug = S[i]
                            /\ {kids[k].slug : k \in (n + 1)..Len(kids)} = subs \ Range(S)
                            /\ \A k, l \in (n + 1)..Len(kids) :
                                  k < l => CmpLower(kids[k].slug, kids[l].slug) <= 0

\* C24: a successful rename_module_page or rename_subpage of a node leaves the
\* node's stored metadata, the order file and the metadata of every other node
\* as they were; a build then shows the node under its new slug with its old
\* stored path, and a page the order file lists under its old slug alone comes
\* after the listed pages.
C24_RenameMovesDirectoryOnly ==
    \A m \in Modules :
        LET Frame(dir, from_slug, to_slug, out) ==
                /\ read_page_meta(out.fs, dir \o <<to_slug>>) = read_page_meta(fs, dir \o <<from_slug>>)
                /\ ReadToString(out.fs, OrderPath(m)) = ReadToString(fs, OrderPath(m))
                /\ \A p \in DOMAIN fs :
                      (p # <<>> /\ p[Len(p)] = "page.json" /\ ~IsPrefix(dir \o <<from_slug>>, p)) =>
                          p \in DOMAIN out.fs /\ out.fs[p] = fs[p]
            Node(nodes, slug) == nodes[CHOOSE i \in 1..Len(nodes) : nodes[i].slug = slug]
            order == load_order(fs, m)
        IN  /\ \A from_slug \in SubDirs(fs, PagesDir(m)) : \A to_slug \in WideInputs.new_pages :
                LET out == rename_module_page(fs, cache, now, m, from_slug, to_slug)
                    stored == read_page_meta(fs, Join(PagesDir(m), from_slug))
                    listed == Range(order.pages) \cap SubDirs(out.fs, PagesDir(m))
                IN  out.res.ok =>
                        /\ Frame(PagesDir(m), from_slug, to_slug, out)
                        /\ \A e \in ScanOrders(out.fs, m) :
                              LET tree == build_module_tree_uncached(out.fs, m, e).val
                              IN  /\ \E i \in 1..Len(tree) : tree[i].slug = to_slug
                                  /\ \A i \in 1..Len(tree) : tree[i].slug # from_slug
                                  /\ IsSome(stored["path"]) =>
                                        Node(tree, to_slug).path = Unwrap(stored["path"])
                                  /\ Node(tree, to_slug).route = stored["route"]
                                  /\ (from_slug \in Range(order.pages)
                                      /\ to_slug \notin Range(order.pages)) =>
                                        \A i \in 1..Cardinality(listed) : tree[i].slug # to_slug
            /\ \A parent_slug \in SubDirs(fs, PagesDir(m)) :
               \A from_slug \in SubDirs(fs, SubpagesDir(m, parent_slug)) :
               \A to_slug \in WideInputs.new_subs :
                LET out == rename_subpage(fs, cache, now, m, parent_slug, from_slug, to_slug)
                    stored == read_page_meta(fs, SubpagesDir(m, parent_slug) \o <<from_slug>>)
                IN  out.res.ok =>
                        /\ Frame(SubpagesDir(m, parent_slug), from_slug, to_slug, out)
                        /\ \A e \in ScanOrders(out.fs, m) :
                              LET tree == build_module_tree_uncached(out.fs, m, e).val
                                  kids == Node(tree, parent_slug).children
                              IN  /\ \E i \in 1..Len(kids) : kids[i].slug = to_slug
                                  /\ IsSome(stored["path"]) =>
                                        Node(kids, to_slug).path = Unwrap(stored["path"])

\* set_page_order has listed the page list, rename_module_page has then moved it
\* to create: its page.json still holds the path /shop/list and the order file
\* still lists list
C24_Witness ==
    /\ last.op = "rename_module_page" /\ last.res.ok
    /\ SubDirs(fs, PagesDir("shop")) = {"create"}
    /\ read_page_meta(fs, Join(PagesDir("shop"), "create"))["path"] = Some("/shop/list")
    /\ load_order(fs, "shop").pages = <<"list">>

(***************************************************************************)
(* Properties of the page type (SpecPageType).                             *)
(***************************************************************************)

\* C25: detect_page_type returns the action attribute when it is set;
\* otherwise the type of the first group, in the order list, detail, create,
\* edit, delete, search, dashboard, settings, one of whose keywords occurs in
\* the lower-cased slug, and general when no keyword does.
C25_FirstKeywordGroupWins ==
    last.op = "detect_page_type" =>
        LET groups == << <<"list", {"list", "index"}>>,
                         <<"detail", {"detail", "view", "show"}>>,
                         <<"create", {"create", "new", "add"}>>,
                         <<"edit", {"edit", "update", "modify"}>>,
                         <<"delete", {"delete", "remove"}>>,
                         <<"search", {"search", "filter"}>>,
                         <<"dashboard", {"dashboard", "overview"}>>,
                         <<"settings", {"settings", "config"}>> >>
            page == last.res.page
            lower == [i \in 1..Len(page) |-> IF page[i] \in 65..90 THEN page[i] + 32 ELSE page[i]]
            Occurs(w) == \E i \in 1..(Len(lower) + 1) : \E j \in (i - 1)..Len(lower) :
                            SubSeq(lower, i, j) = Chars(w)
            hits == {g \in 1..Len(groups) : \E w \in groups[g][2] : Occurs(w)}
        IN  /\ IsSome(last.res.action) => last.res.type = Unwrap(last.res.action)
            /\ (~IsSome(last.res.action) /\ hits = {}) => last.res.type = "general"
            /\ (~IsSome(last.res.action) /\ hits # {}) =>
                  \E g \in hits : /\ \A h \in hits : g <= h
                                  /\ last.res.type = groups[g][1]

\* detect_page_type has been applied, with no action attribute, to a slug
\* that holds keywords of two groups in upper and lower case and has returned
\* the type of the earlier group
C25_Witness ==
    /\ last.op = "detect_page_type"
    /\ last.res.page = Chars("Edit") \o Chars("LIST")
    /\ last.res.action = None
    /\ last.res.type = "list"

(***************************************************************************)
(* Properties of the graph pages (SpecMermaid).                            *)
(***************************************************************************)

\* C26: in the page generate_project_mermaid_html has written, every
\* identifier the graph declares for a module, a page or a subpage is a key of
\* the link map, and the identifier of each node is mapped to its directory.
C26_LinkMapCoversGraphNodes ==
    (last.op = "generate_project_mermaid_html" /\ last.res.ok) =>
        LET html == ReadToString(fs, <<"ai-docs", "project-sitemap.html">>).data.val
            buf == html.content
            Dir(node) == IF Len(node) = 1 THEN ModuleDir(node[1])
                         ELSE IF Len(node) = 2 THEN Join(PagesDir(node[1]), node[2])
                         ELSE SubpagesDir(node[1], node[2]) \o <<node[3]>>
            mods == SubDirs(fs, <<"design-assets">>)
            nodes == {<<m>> : m \in mods}
                     \cup UNION {{<<m, p>> : p \in SubDirs(fs, PagesDir(m))} : m \in mods}
                     \cup UNION {UNION {{<<m, p, ss>> : ss \in SubDirs(fs, SubpagesDir(m, p))} :
                                           p \in SubDirs(fs, PagesDir(m))} : m \in mods}
        IN  /\ \A x \in 1..Len(buf) :
                  buf[x].kind \in {"node", "edge"} => buf[x].id \in DOMAIN html.links
            /\ \A node \in nodes :
                  /\ NodeId(node) \in DOMAIN html.links
                  /\ html.links[NodeId(node)].path =
                        [i \in 1..Len(Dir(node)) |-> Chars(Dir(node)[i])]
                     \/ \E i \in 1..Len(node) : 32 \in Range(Chars(node[i]))

(***************************************************************************)
(* Properties of concurrent reads and creations (SpecLock).                *)
(***************************************************************************)

\* C27: when every command the threads were given has returned, a fresh
\* cache entry of a module is a tree that a build over the file system as it
\* now is returns.
C27_FreshEntryMatchesDisk ==
    (\A t \in Threads : threads[t].at \in {"idle", "done"}) =>
        \A m \in Modules :
            is_module_tree_fresh(cache, m, now, CACHE_DURATION_MEDIUM) =>
                \E e \in ScanOrders(fs, m) :
                    build_module_tree_uncached(fs, m, e) = Ok(cache.module_trees[m].data)

(***************************************************************************)
(* Properties of the subpage order (SpecFs).                               *)
(***************************************************************************)

\* C28: when set_subpage_order(m, p, S) succeeds, a build over the file system
\* it leaves returns the page p with S as the first of its children, whether
\* the order file lists p among its pages or not.
C28_SubpageOrderIsPrefix ==
    \A m \in Modules : \A p \in SubDirs(fs, PagesDir(m)) : \A S \in WideInputs.sub_orders :
        LET out == set_subpage_order(fs, cache, now, m, p, S)
        IN  out.res.ok =>
                \A e \in ScanOrders(out.fs, m) :
                    LET tree == build_module_tree_uncached(out.fs, m, e).val
                        kids == tree[CHOOSE i \in 1..Len(tree) : tree[i].slug = p].children
                    IN  /\ Len(kids) >= Len(S)
                        /\ \A i \in 1..Len(S) : kids[i].slug = S[i]

(***************************************************************************)
(* Properties of the sequence of the graph's nodes (SpecMermaid).          *)
(***************************************************************************)

\* C29: the graph generate_project_mermaid writes and the graph
\* generate_module_mermaid_html writes give the pages of a module, and the
\* subpages of each page, in the sequence in which a build of the module's
\* tree over the same file system returns them.
C29_GraphFollowsTreeSequence ==
    LET \* the slugs of the edges of buf whose label is a path one segment below prefix
        Emitted(buf, prefix) ==
            LET at == SelectSeq([i \in 1..Len(buf) |-> i],
                                LAMBDA i : /\ buf[i].kind = "edge"
                                           /\ Len(buf[i].label) = Len(prefix) + 3
                                           /\ SubSeq(buf[i].label, 1, Len(prefix)) = prefix)
            IN  [k \in 1..Len(at) |-> Unwrap(buf[at[k]].label[Len(prefix) + 1])]
        Slugs(nodes) == [i \in 1..Len(nodes) |-> nodes[i].slug]
        Follows(buf, m) ==
            \E e \in ScanOrders(fs, m) :
                LET tree == build_module_tree_uncached(fs, m, e)
                IN  tree.ok =>
                        /\ Emitted(buf, <<Some(m)>>) = Slugs(tree.val)
                        /\ \A t \in 1..Len(tree.val) :
                              Emitted(buf, <<Some(m), Some(tree.val[t].slug)>>)
                                  = Slugs(tree.val[t].children)
    IN  /\ (last.op = "generate_project_mermaid" /\ last.res.ok) =>
               \A m \in SubDirs(fs, <<"design-assets">>) :
                   Follows(ReadToString(fs, <<"ai-docs", "project-sitemap.mmd">>).data.val, m)
        /\ (last.op = "generate_module_mermaid_html" /\ last.res.ok) =>
               Follows(ReadToString(fs, <<"ai-docs", "module-" \o last.m \o "-sitemap.mmd">>)
                           .data.val, last.m)

(***************************************************************************)
(* Properties of the creation of subpages (SpecSubpages).                  *)
(***************************************************************************)

\* C30: create_subpage(M, p, s) and apply_crud_subpages(M, p) leave the set of
\* the modules and the set of the pages of every module as they were, and
\* fail when the module M or the page p is missing.
C30_SubpagesCreateNoAncestor ==
    \A m \in Inputs.modules : \A p \in Inputs.pages :
        LET missing == ~IsDir(fs, ModuleDir(m)) \/ ~IsDir(fs, Join(PagesDir(m), p))
            Kept(out) ==
                /\ missing => ~out.res.ok
                /\ SubDirs(out.fs, <<"design-assets">>) = SubDirs(fs, <<"design-assets">>)
                /\ \A x \in Inputs.modules :
                      SubDirs(out.fs, PagesDir(x)) = SubDirs(fs, PagesDir(x))
        IN  /\ Kept(apply_crud_subpages(fs, cache, now, m, p))
            /\ \A s \in Inputs.new_subs : Kept(create_subpage(fs, cache, now, m, p, s))

====
